---------------------------- MODULE Spec2Model ----------------------------
(***************************************************************************)
(* Model of the Android by-app report (build_android_report_by_app.py):    *)
(* reading the two record sources, indexing the snapshot directory,        *)
(* ranking the subjects, and building every subject's section (minute-key  *)
(* correlation flags and artifact resolution).                             *)
(*                                                                         *)
(* Text is modelled as a sequence of one-character strings, so that        *)
(* slicing, lower-casing, suffix tests, lexicographic order, parsing and   *)
(* formatting are computed as the code computes them.  SQL NULL / Python   *)
(* None is the value NULL below.                                           *)
(***************************************************************************)
EXTENDS Integers, Sequences, FiniteSets, TLC

VARIABLES
    rct_db,      \* RecentTasks.db: absent, or the rows of recent_tasks
    usg_db,      \* usagestats_parsed.sqlite: absent, or the rows of data
    snap_dir,    \* the snapshot directory: absent, or its files
    pc,          \* position in main / build_html
    df_rct,      \* DataFrame returned by read_recenttasks
    df_usg,      \* DataFrame returned by read_usagestats
    snap_index,  \* dict built by index_snapshots
    pkgs,        \* the ranked subject list
    pos,         \* number of the subject the section loop is at
    sections,    \* the sections appended so far
    written,     \* whether the report file has been written
    dec_prog,    \* the collaborator decoder that runs, "none" for a report run
    dec_items,   \* the files or blobs the decoder iterates over, in its order
    dec_pos,     \* number of the item the decoder's loop is at
    dec_rows,    \* rows the decoder holds in memory (all_rows)
    dec_db,      \* rows the decoder has written (committed) to its output
    dec_state,   \* "idle", "running", "done", or "crashed" on an uncaught exception
    ios_dir,     \* the folder of an iOS report run: converter, .ktx files, databases
    ios_pc,      \* position in main of the iOS report, "none" when it does not run
    png_files,   \* list returned by run_ios_ktx2png_on_folder
    kc_df,       \* DataFrame returned by parse_knowledgec
    app_df,      \* DataFrame returned by parse_appstate
    ios_sections \* the sections of build_html_by_app

vars == << rct_db, usg_db, snap_dir, pc, df_rct, df_usg, snap_index, pkgs, pos,
           sections, written, dec_prog, dec_items, dec_pos, dec_rows, dec_db,
           dec_state, ios_dir, ios_pc, png_files, kc_df, app_df, ios_sections >>

\* The state of a collaborator decoder's run.
decoder == << dec_prog, dec_items, dec_pos, dec_rows, dec_db, dec_state >>

\* The state of a run of the iOS report.
ios == << ios_dir, ios_pc, png_files, kc_df, app_df, ios_sections >>

\* What a report run only reads: its inputs, and the other programs.
env == << rct_db, usg_db, snap_dir, decoder, ios >>

\* The state of a report run.
report == << rct_db, usg_db, snap_dir, pc, df_rct, df_usg, snap_index, pkgs, pos,
            sections, written >>

\* ------------------------------------------------------------------ text

\* The characters the model uses, in code-point order.
Alphabet ==
    << " ", "+", "-", ".", "/",
       "0", "1", "2", "3", "4", "5", "6", "7", "8", "9", ":",
       "A", "B", "C", "D", "E", "F", "G", "H", "I", "J", "K", "L", "M",
       "N", "O", "P", "Q", "R", "S", "T", "U", "V", "W", "X", "Y", "Z",
       "_",
       "a", "b", "c", "d", "e", "f", "g", "h", "i", "j", "k", "l", "m",
       "n", "o", "p", "q", "r", "s", "t", "u", "v", "w", "x", "y", "z",
       "{", "}" >>

Chars == { Alphabet[i] : i \in 1..Len(Alphabet) }

OrdMap == [ c \in Chars |-> CHOOSE i \in 1..Len(Alphabet) : Alphabet[i] = c ]

\* Position of a character in code-point order (order-isomorphic to ord()).
Ord(c) == OrdMap[c]

Digits == << "0", "1", "2", "3", "4", "5", "6", "7", "8", "9" >>

IsDigit(c) == Ord(c) >= Ord("0") /\ Ord(c) <= Ord("9")

IsUpper(c) == Ord(c) >= Ord("A") /\ Ord(c) <= Ord("Z")

IsLower(c) == Ord(c) >= Ord("a") /\ Ord(c) <= Ord("z")

\* Value of a decimal digit character.
DigitVal(c) == Ord(c) - Ord("0")

\* SQL NULL / Python None: a value that is no text (its element is no character).
NULL == << "<NULL>" >>

IsNull(x) == x = NULL

\* str(None)
NoneText == << "N", "o", "n", "e" >>

\* str.lower() of one character
LowerChar(c) == IF IsUpper(c) THEN Alphabet[Ord(c) - Ord("A") + Ord("a")] ELSE c

\* str.lower()
Lower(s) == [ i \in 1..Len(s) |-> LowerChar(s[i]) ]

\* str.strip(): leading and trailing blanks removed
RECURSIVE LStrip(_)
LStrip(s) == IF s # << >> /\ Head(s) = " " THEN LStrip(Tail(s)) ELSE s

RECURSIVE RStrip(_)
RStrip(s) ==
    IF s # << >> /\ s[Len(s)] = " " THEN RStrip(SubSeq(s, 1, Len(s) - 1)) ELSE s

Strip(s) == RStrip(LStrip(s))

\* s[:n]
Prefix(s, n) == SubSeq(s, 1, IF Len(s) < n THEN Len(s) ELSE n)

\* str.replace(a, b) for single characters a, b
ReplaceChar(s, a, b) == [ i \in 1..Len(s) |-> IF s[i] = a THEN b ELSE s[i] ]

\* key.endswith(suffix)
EndsWith(key, suffix) ==
    /\ Len(suffix) <= Len(key)
    /\ SubSeq(key, Len(key) - Len(suffix) + 1, Len(key)) = suffix

\* "".join(ch for ch in s if ch.isdigit())
RECURSIVE DigitsOf(_)
DigitsOf(s) ==
    IF s = << >> THEN << >>
    ELSE IF IsDigit(Head(s)) THEN << Head(s) >> \o DigitsOf(Tail(s))
    ELSE DigitsOf(Tail(s))

\* Python's str < str: lexicographic by code point
RECURSIVE StrLess(_, _)
StrLess(a, b) ==
    IF b = << >> THEN FALSE
    ELSE IF a = << >> THEN TRUE
    ELSE IF Head(a) = Head(b) THEN StrLess(Tail(a), Tail(b))
    ELSE Ord(Head(a)) < Ord(Head(b))

StrLeq(a, b) == a = b \/ StrLess(a, b)

\* max() of a non-empty set of texts
StrMax(S) == CHOOSE m \in S : \A x \in S : StrLeq(x, m)

\* ------------------------------------------------------------- calendar

\* Decimal value of a non-empty text of digits.
RECURSIVE ParseNat(_)
ParseNat(s) ==
    IF s = << >> THEN 0
    ELSE ParseNat(SubSeq(s, 1, Len(s) - 1)) * 10 + DigitVal(s[Len(s)])

AllDigits(s) == \A i \in 1..Len(s) : IsDigit(s[i])

\* n formatted as exactly w decimal digits ("%02d", "%04d")
RECURSIVE Pad(_, _)
Pad(n, w) == IF w = 0 THEN << >> ELSE Pad(n \div 10, w - 1) \o << Digits[(n % 10) + 1] >>

IsLeap(y) == (y % 4 = 0 /\ y % 100 # 0) \/ y % 400 = 0

DaysInMonth(y, m) ==
    IF m = 2 THEN (IF IsLeap(y) THEN 29 ELSE 28)
    ELSE IF m \in {4, 6, 9, 11} THEN 30 ELSE 31

\* Days from 1970-01-01 to the proleptic Gregorian date y-m-d.
DaysFromCivil(y, m, d) ==
    LET yy  == IF m <= 2 THEN y - 1 ELSE y
        era == yy \div 400
        yoe == yy - era * 400
        mp  == IF m > 2 THEN m - 3 ELSE m + 9
        doy == (153 * mp + 2) \div 5 + d - 1
        doe == yoe * 365 + yoe \div 4 - yoe \div 100 + doy
    IN  era * 146097 + doe - 719468

\* The proleptic Gregorian date of day z (days from 1970-01-01), computed
\* era by era: day of era, year of era, day of year, shifted month.
CivilOfMonth(era, yoe, doy, mp) ==
    LET m == IF mp < 10 THEN mp + 3 ELSE mp - 9
    IN  [y |-> yoe + era * 400 + (IF m <= 2 THEN 1 ELSE 0),
         m |-> m,
         d |-> doy - (153 * mp + 2) \div 5 + 1]

CivilOfDayOfYear(era, yoe, doy) == CivilOfMonth(era, yoe, doy, (5 * doy + 2) \div 153)

CivilOfYearOfEra(era, doe, yoe) ==
    CivilOfDayOfYear(era, yoe, doe - (365 * yoe + yoe \div 4 - yoe \div 100))

CivilOfDayOfEra(era, doe) ==
    CivilOfYearOfEra(era, doe,
        (doe - doe \div 1460 + doe \div 36524 - doe \div 146096) \div 365)

CivilOfEra(zz, era) == CivilOfDayOfEra(era, zz - era * 146097)

CivilFromDays(z) == CivilOfEra(z + 719468, (z + 719468) \div 146097)

\* Offset of the report's reference timezone (KST), in hours.
KstHours == 9

\* "YYYY-MM-DD HH:MM" of the civil date c and minute `minute` of the day.
FormatCivil(c, minute) ==
    Pad(c.y, 4) \o << "-" >> \o Pad(c.m, 2) \o << "-" >> \o Pad(c.d, 2)
    \o << " " >> \o Pad(minute \div 60, 2) \o << ":" >> \o Pad(minute % 60, 2)

\* "YYYY-MM-DD HH:MM" of the civil time: day `days` (from 1970-01-01), minute
\* `minute` of that day.
FormatMinute(days, minute) == FormatCivil(CivilFromDays(days), minute)

\* A value of the INTEGER column lastime: an epoch-millisecond instant held as
\* whole seconds and the remaining milliseconds (the instant is
\* sec * 1000 + ms), the empty text the decoder stores for a missing time, or
\* NULL.
IntMs(sec, ms) == [t |-> "int", sec |-> sec, ms |-> ms]

EmptyTextValue == [t |-> "text"]

NullValue == [t |-> "null"]

\* SQL: datetime(lastime/1000, 'unixepoch', '+9 hours').  NULL stays NULL;
\* the empty text is 0 in the division; the result is "YYYY-MM-DD HH:MM:SS".
SqlDatetimeKst(lastime) ==
    IF lastime.t = "null" THEN NULL
    ELSE LET sec   == IF lastime.t = "int" THEN lastime.sec ELSE 0
             days  == sec \div 86400
             sod   == sec % 86400
             shift == sod + KstHours * 3600
             d2    == days + shift \div 86400
             s2    == shift % 86400
         IN  FormatMinute(d2, s2 \div 60) \o << ":" >> \o Pad(s2 % 60, 2)

\* _minute_key_from_usg
MinuteKeyFromUsg(s) ==
    IF IsNull(s) \/ s = << >> THEN << >>
    ELSE Prefix(Strip(ReplaceChar(s, "T", " ")), 16)

\* datetime.fromisoformat for the forms
\*   YYYY-MM-DD[xHH:MM[:SS[.fff[fff]]]][(+|-)HH:MM]
\* (x any single character).  The result is [ok |-> FALSE] when the text is
\* not of that form or a field is out of range; otherwise the civil fields
\* and the UTC offset in minutes (aware) or no offset (naive).
ParseTimeOfDay(t) ==
    LET n    == Len(t)
        hhmm == /\ n >= 5
                /\ AllDigits(SubSeq(t, 1, 2)) /\ t[3] = ":" /\ AllDigits(SubSeq(t, 4, 5))
        secs == n >= 8 /\ t[6] = ":" /\ AllDigits(SubSeq(t, 7, 8))
        frac == IF n >= 12 /\ t[9] = "." /\ AllDigits(SubSeq(t, 10, 12))
                THEN (IF n >= 15 /\ AllDigits(SubSeq(t, 13, 15)) THEN 7 ELSE 4)
                ELSE 0
        used == IF ~hhmm THEN 0 ELSE IF ~secs THEN 5 ELSE 8 + frac
        hh   == ParseNat(SubSeq(t, 1, 2))
        mm   == ParseNat(SubSeq(t, 4, 5))
        ss   == IF secs THEN ParseNat(SubSeq(t, 7, 8)) ELSE 0
    IN  IF hhmm /\ (n = 5 \/ secs) /\ used = n /\ hh < 24 /\ mm < 60 /\ ss < 60
        THEN [ok |-> TRUE, hh |-> hh, mm |-> mm, ss |-> ss]
        ELSE [ok |-> FALSE]

ParseOffset(o) ==
    IF /\ Len(o) = 6 /\ o[1] \in {"+", "-"}
       /\ AllDigits(SubSeq(o, 2, 3)) /\ o[4] = ":" /\ AllDigits(SubSeq(o, 5, 6))
       /\ ParseNat(SubSeq(o, 2, 3)) < 24 /\ ParseNat(SubSeq(o, 5, 6)) < 60
    THEN [ok |-> TRUE,
          minutes |-> (IF o[1] = "-" THEN -1 ELSE 1)
                      * (ParseNat(SubSeq(o, 2, 3)) * 60 + ParseNat(SubSeq(o, 5, 6)))]
    ELSE [ok |-> FALSE]

\* Position in `rest` of the sign that starts the offset, 0 when none.
OffsetStart(rest) ==
    LET signs == { i \in 1..Len(rest) : rest[i] \in {"+", "-"} }
    IN  IF signs = {} THEN 0 ELSE CHOOSE i \in signs : \A j \in signs : i <= j

\* The parse of a text whose date part is y-m-d and whose time and offset
\* parts parsed to tod and off (cut: where the offset starts, 0 when none).
IsoDateTime(y, m, d, cut, tod, off) ==
    IF ~tod.ok \/ (cut # 0 /\ ~off.ok)
    THEN [ok |-> FALSE]
    ELSE [ok |-> TRUE, y |-> y, m |-> m, d |-> d,
          hh |-> tod.hh, mm |-> tod.mm, ss |-> tod.ss,
          aware |-> cut # 0, offset |-> IF cut # 0 THEN off.minutes ELSE 0]

IsoSplit(y, m, d, rest, cut) ==
    IsoDateTime(y, m, d, cut,
                ParseTimeOfDay(IF cut = 0 THEN rest ELSE SubSeq(rest, 1, cut - 1)),
                ParseOffset(IF cut = 0 THEN << >> ELSE SubSeq(rest, cut, Len(rest))))

IsoDate(y, m, d, n, rest) ==
    IF y < 1 \/ m < 1 \/ m > 12 \/ d < 1 \/ d > DaysInMonth(y, m)
    THEN [ok |-> FALSE]
    ELSE IF n = 10
    THEN [ok |-> TRUE, y |-> y, m |-> m, d |-> d, hh |-> 0, mm |-> 0, ss |-> 0,
          aware |-> FALSE, offset |-> 0]
    ELSE IF n = 11
    THEN [ok |-> FALSE]
    ELSE IsoSplit(y, m, d, rest, OffsetStart(rest))

FromIsoFormat(s) ==
    IF /\ Len(s) >= 10
       /\ AllDigits(SubSeq(s, 1, 4)) /\ s[5] = "-"
       /\ AllDigits(SubSeq(s, 6, 7)) /\ s[8] = "-"
       /\ AllDigits(SubSeq(s, 9, 10))
    THEN IsoDate(ParseNat(SubSeq(s, 1, 4)), ParseNat(SubSeq(s, 6, 7)),
                 ParseNat(SubSeq(s, 9, 10)), Len(s), SubSeq(s, 12, Len(s)))
    ELSE [ok |-> FALSE]

\* The first of two parses that succeeded (the second when neither did).
FirstOk(a, b) == IF a.ok THEN a ELSE b

\* The fallback of the except branch: "T" replaced by a blank, 16 characters.
RawMinute(s) == Prefix(ReplaceChar(s, "T", " "), 16)

\* Mutant: the shift never carries into the next day.
ToKstOfMinuteSameDay(dt, mod) ==
    [days |-> DaysFromCivil(dt.y, dt.m, dt.d), minute |-> mod % 1440]

\* astimezone(UTC+9) of the parsed time dt (a naive time is taken as UTC):
\* the day (from 1970-01-01) and the minute of that day.
ToKstOfMinute(dt, mod) ==
    [days |-> DaysFromCivil(dt.y, dt.m, dt.d) + mod \div 1440, minute |-> mod % 1440]

ToKst(dt) == ToKstOfMinute(dt, dt.hh * 60 + dt.mm - dt.offset + KstHours * 60)

\* strftime("%Y-%m-%d %H:%M") of the converted time; the conversion raises
\* outside years 1..9999.
FormatKst(s, kst, year) ==
    IF year >= 1 /\ year <= 9999 THEN FormatMinute(kst.days, kst.minute) ELSE RawMinute(s)

KeyOfKst(s, kst) == FormatKst(s, kst, CivilFromDays(kst.days).y)

KeyOfParse(s, dt) == IF dt.ok THEN KeyOfKst(s, ToKst(dt)) ELSE RawMinute(s)

\* _minute_key_from_rct_utc_to_kst: parse, take a naive time as UTC, convert
\* to UTC+9 and format to the minute; on any exception (unparsable text, or a
\* converted time outside years 1..9999) fall back to the first 16 characters
\* with "T" replaced by a blank.
MinuteKeyFromRctUtcToKst(s) ==
    IF IsNull(s) \/ s = << >> THEN << >>
    ELSE KeyOfParse(s, FirstOk(FromIsoFormat(s), FromIsoFormat(ReplaceChar(s, " ", "T"))))

\* --------------------------------------------------------------- subject

\* The character class [A-Za-z0-9._]
IsIdent(c) == IsDigit(c) \/ IsUpper(c) \/ IsLower(c) \/ c \in {".", "_"}

\* Last position of the longest run of identifier characters of s that starts
\* at position i (i - 1 when s[i] is no identifier character).
RECURSIVE RunEnd(_, _)
RunEnd(s, i) == IF i <= Len(s) /\ IsIdent(s[i]) THEN RunEnd(s, i + 1) ELSE i - 1

\* The least element of a non-empty set of positions.
MinPos(P) == CHOOSE i \in P : \A j \in P : i <= j

MaxPos(P) == CHOOSE i \in P : \A j \in P : i >= j

\* _extract_package: the package of a real_activity descriptor, NULL when none
\* of the four patterns matches.
\* Mutant: the fallback pattern stops at the first "." of the run.
ExtractStrippedFirstDot(s, n, e1) ==
    LET braces == { i \in 1..n : /\ s[i] = "{"
                                 /\ RunEnd(s, i + 1) > i
                                 /\ RunEnd(s, i + 1) < n
                                 /\ s[RunEnd(s, i + 1) + 1] = "/" }
        DotsAfter(i) == { p \in (i + 1)..RunEnd(s, i) : s[p] = "." }
        starts == { i \in 1..n : DotsAfter(i) # {} }
    IN  IF braces # {}
        THEN SubSeq(s, MinPos(braces) + 1, RunEnd(s, MinPos(braces) + 1))
        ELSE IF e1 >= 1 /\ e1 < n /\ s[e1 + 1] \in {"/", " "}
        THEN SubSeq(s, 1, e1)
        ELSE IF n >= 1 /\ e1 = n
        THEN s
        ELSE IF starts # {}
        THEN SubSeq(s, MinPos(starts), MinPos(DotsAfter(MinPos(starts))) - 1)
        ELSE NULL

ExtractStripped(s, n, e1) ==
    LET \* re.search(r'\{([A-Za-z0-9._]+)/', s)
        braces == { i \in 1..n : /\ s[i] = "{"
                                 /\ RunEnd(s, i + 1) > i
                                 /\ RunEnd(s, i + 1) < n
                                 /\ s[RunEnd(s, i + 1) + 1] = "/" }
        \* re.search(r'([A-Za-z0-9._]+)\.', s): the group is greedy, so it
        \* ends before the last "." of the run it starts in
        DotsAfter(i) == { p \in (i + 1)..RunEnd(s, i) : s[p] = "." }
        starts == { i \in 1..n : DotsAfter(i) # {} }
    IN  IF braces # {}
        THEN SubSeq(s, MinPos(braces) + 1, RunEnd(s, MinPos(braces) + 1))
        \* re.match(r'([A-Za-z0-9._]+)[/ ]', s), e1 the end of the first run
        ELSE IF e1 >= 1 /\ e1 < n /\ s[e1 + 1] \in {"/", " "}
        THEN SubSeq(s, 1, e1)
        ELSE IF n >= 1 /\ e1 = n
        THEN s
        ELSE IF starts # {}
        THEN SubSeq(s, MinPos(starts), MaxPos(DotsAfter(MinPos(starts))) - 1)
        ELSE NULL

ExtractOf(s) == ExtractStripped(s, Len(s), RunEnd(s, 1))

ExtractPackage(real_activity) ==
    IF IsNull(real_activity) \/ real_activity = << >> THEN NULL
    ELSE ExtractOf(Strip(real_activity))

\* The sequences of a set's elements, each element once, in every order.
Orders(S) ==
    LET n == Cardinality(S)
    IN  { f \in [1..n -> S] : \A i, j \in 1..n : i # j => f[i] # f[j] }

\* The arrangements of the rows of `rows` that an ORDER BY / sort may return:
\* every order in which no row comes after a row it sorts strictly before.
\* `before` is the set of index pairs <<i, j>> with rows[i] strictly before
\* rows[j] in the sort order.
Arrangements(rows, before) ==
    LET n == Len(rows)
    IN  { [i \in 1..n |-> rows[p[i]]] :
            p \in { q \in Permutations(1..n) :
                      \A i, j \in 1..n : i < j => << q[j], q[i] >> \notin before } }

\* A row of table recent_tasks (RecentTasks.db).
RctRow(tid, ra, ltm, utc, snap) ==
    [task_id |-> tid, real_activity |-> ra, last_time_moved |-> ltm,
     last_time_moved_utc |-> utc, snapshot_file |-> snap]

\* A row of table data (usagestats_parsed.sqlite); usage_type and types are
\* only ever compared with literals and are kept as atoms.
UsgRow(ut, lt, pkg, ty) ==
    [usage_type |-> ut, lastime |-> lt, package |-> pkg, types |-> ty]

\* ms_to_iso: the UTC ISO text of an epoch-millisecond value, NULL on failure.
MsToIso(ltm) ==
    IF ltm.t # "int" THEN NULL
    ELSE LET days == ltm.sec \div 86400
             sod  == ltm.sec % 86400
             c    == CivilFromDays(days)
         IN  Pad(c.y, 4) \o << "-" >> \o Pad(c.m, 2) \o << "-" >> \o Pad(c.d, 2)
             \o << "T" >> \o Pad(sod \div 3600, 2) \o << ":" >>
             \o Pad((sod \div 60) % 60, 2) \o << ":" >> \o Pad(sod % 60, 2)
             \o (IF ltm.ms = 0 THEN << >> ELSE << "." >> \o Pad(ltm.ms, 3) \o << "0", "0", "0" >>)
             \o << "+", "0", "0", ":", "0", "0" >>

\* SQL ordering of two column values: NULL < INTEGER < TEXT, integers by value.
TypeRank(v) == IF v.t = "null" THEN 0 ELSE IF v.t = "int" THEN 1 ELSE 2

SqlLess(a, b) ==
    \/ TypeRank(a) < TypeRank(b)
    \/ /\ a.t = "int" /\ b.t = "int"
       /\ (a.sec < b.sec \/ (a.sec = b.sec /\ a.ms < b.ms))

\* CAST(v AS INTEGER): a text without a numeric prefix is 0.
CastInteger(v) == IF v.t = "text" THEN IntMs(0, 0) ELSE v

\* -------------------------------------------------------------- readers

\* read_recenttasks on a present database: the rows of recent_tasks in an
\* order ORDER BY CAST(last_time_moved AS INTEGER) DESC may return, each with
\* its package column.
WithPackage(r) ==
    [task_id |-> r.task_id, real_activity |-> r.real_activity,
     last_time_moved |-> r.last_time_moved,
     last_time_moved_utc |-> r.last_time_moved_utc,
     snapshot_file |-> r.snapshot_file,
     package |-> ExtractPackage(r.real_activity)]

RctBefore(a, b) == SqlLess(CastInteger(b.last_time_moved), CastInteger(a.last_time_moved))

RctBeforePairs(rows) ==
    { ij \in (1..Len(rows)) \X (1..Len(rows)) : RctBefore(rows[ij[1]], rows[ij[2]]) }

ReadRecentTasksRows(rows) ==
    { [i \in 1..Len(arr) |-> WithPackage(arr[i])] : arr \in Arrangements(rows, RctBeforePairs(rows)) }

\* read_usagestats on a present database: the event-log rows of the three
\* activity types, in an order ORDER BY lastime DESC may return, with
\* last_time_kst computed by the query.
UsgSelected(r) ==
    /\ r.usage_type = "event-log"
    /\ r.types \in {"ACTIVITY_RESUMED", "ACTIVITY_PAUSED", "ACTIVITY_PAUSE", "ACTIVITY_STOPPED"}

UsgBefore(a, b) == SqlLess(b.lastime, a.lastime)

UsgBeforePairs(rows) ==
    { ij \in (1..Len(rows)) \X (1..Len(rows)) : UsgBefore(rows[ij[1]], rows[ij[2]]) }

UsgProject(r) ==
    [last_time_kst |-> SqlDatetimeKst(r.lastime), package |-> r.package, types |-> r.types]

ReadUsageStatsRows(rows) ==
    LET sel == SelectSeq(rows, UsgSelected)
    IN  { [i \in 1..Len(arr) |-> UsgProject(arr[i])] :
            arr \in Arrangements(sel, UsgBeforePairs(sel)) }

\* ----------------------------------------------------------- ArtifactIndex

\* A dict as the sequence of its items in insertion order.
DictKeys(d) == { d[i].key : i \in 1..Len(d) }

DictGet(d, key) == (CHOOSE i \in 1..Len(d) : d[i].key = key)

\* Mutant: a present key keeps its value.
DictSetKeepFirst(d, key, path) ==
    IF key \in DictKeys(d) THEN d ELSE Append(d, [key |-> key, path |-> path])

\* d[key] = path: a present key keeps its position and takes the new value
DictSet(d, key, path) ==
    IF key \in DictKeys(d)
    THEN [ i \in 1..Len(d) |-> IF d[i].key = key THEN [key |-> key, path |-> path] ELSE d[i] ]
    ELSE Append(d, [key |-> key, path |-> path])

\* index_snapshots over the files of the directory tree in traversal order
RECURSIVE IndexFiles(_, _)
IndexFiles(mapping, files) ==
    IF files = << >> THEN mapping
    ELSE IndexFiles(DictSet(mapping, Lower(Head(files).name), Head(files)), Tail(files))

\* ---------------------------------------------------------- ArtifactMatcher

Exts ==
    << << ".", "j", "p", "g" >>, << ".", "p", "n", "g" >>,
       << ".", "w", "e", "b", "p" >>, << ".", "j", "p", "e", "g" >> >>

Reduced == << "_", "r", "e", "d", "u", "c", "e", "d" >>

\* Mutant: the "_reduced" names are not generated.
DigitCandidatesNoReduced(digits) == [ i \in 1..Len(Exts) |-> digits \o Exts[i] ]

\* [f"{digits}{e}" for e in exts] + [f"{digits}_reduced{e}" for e in exts]
DigitCandidates(digits) ==
    [ i \in 1..Len(Exts) |-> digits \o Exts[i] ]
    \o [ i \in 1..Len(Exts) |-> digits \o Reduced \o Exts[i] ]

\* str(x)
Str(x) == IF IsNull(x) THEN NoneText ELSE x

\* x or ""
OrEmpty(x) == IF IsNull(x) THEN << >> ELSE x

\* The candidate list of the display-image loop of build_html.
DisplayCandidates(r) ==
    LET name   == Strip(Str(r.snapshot_file))
        tid    == Strip(Str(r.task_id))
        digits == DigitsOf(tid)
    IN  (IF name # << >> THEN << name >> ELSE << >>)
        \o (IF digits # << >> THEN DigitCandidates(digits) ELSE << >>)

NotFound == [found |-> FALSE]

\* for key, path in snap_index.items(): if key.endswith(lc): found = path; break
FirstSuffixMatch(index, lc) ==
    LET hits == { i \in 1..Len(index) : EndsWith(index[i].key, lc) }
    IN  IF hits = {} THEN 0 ELSE MinPos(hits)

\* Mutant: an exact match of any candidate is taken before any suffix match.
ResolveExactFirst(candidates, index, n) ==
    LET exact == { i \in n..Len(candidates) : Lower(candidates[i]) \in DictKeys(index) }
        sfx   == { i \in n..Len(candidates) : FirstSuffixMatch(index, Lower(candidates[i])) # 0 }
    IN  IF exact # {}
        THEN [found |-> TRUE,
              path |-> index[DictGet(index, Lower(candidates[MinPos(exact)]))].path,
              cand |-> MinPos(exact), via |-> "exact"]
        ELSE IF sfx # {}
        THEN [found |-> TRUE,
              path |-> index[FirstSuffixMatch(index, Lower(candidates[MinPos(sfx)]))].path,
              cand |-> MinPos(sfx), via |-> "suffix"]
        ELSE NotFound

\* The candidate loop of the display-image search, from candidate number n on:
\* the path found, the number of the candidate that found it and the branch
\* that assigned it.
RECURSIVE ResolveFrom(_, _, _)
ResolveFrom(candidates, index, n) ==
    IF n > Len(candidates) THEN NotFound
    ELSE LET lc == Lower(candidates[n])
         IN  IF lc \in DictKeys(index)
             THEN [found |-> TRUE, path |-> index[DictGet(index, lc)].path,
                   cand |-> n, via |-> "exact"]
             ELSE IF FirstSuffixMatch(index, lc) # 0
             THEN [found |-> TRUE, path |-> index[FirstSuffixMatch(index, lc)].path,
                   cand |-> n, via |-> "suffix"]
             ELSE ResolveFrom(candidates, index, n + 1)

\* The display-image search for one task record.
ResolveDisplay(r, index) == ResolveFrom(DisplayCandidates(r), index, 1)

\* One iteration of the row loop of _snapshot_score_for_pkg: whether the row
\* adds 1 to the score.
ScoreRowFound(r, index) ==
    LET sf     == Lower(Strip(Str(OrEmpty(r.snapshot_file))))
        tid    == Str(OrEmpty(r.task_id))
        digits == DigitsOf(tid)
        candidates == (IF sf # << >> THEN << sf >> ELSE << >>)
                      \o (IF digits # << >> THEN DigitCandidates(digits) ELSE << >>)
    IN  \/ (sf # << >> /\ sf \in DictKeys(index))
        \/ \E n \in 1..Len(candidates) :
              \/ candidates[n] \in DictKeys(index)
              \/ \E i \in 1..Len(index) : EndsWith(index[i].key, candidates[n])

\* ------------------------------------------------------------- Correlator

AndroidText == << "a", "n", "d", "r", "o", "i", "d" >>

\* df["package"].fillna("android").astype(str)
Pkg2(package) == IF IsNull(package) THEN AndroidText ELSE package

\* df[df["pkg2"] == pkg]
SubsetOf(df, pkg) == SelectSeq(df, LAMBDA r : Pkg2(r.package) = pkg)

\* Mutant: the key set is not reset between subjects, it also holds the keys
\* of the subjects already processed.
UsgMinSetCached(sub_u) ==
    ({ MinuteKeyFromUsg(sub_u[i].last_time_kst) :
         i \in { j \in 1..Len(sub_u) : ~IsNull(sub_u[j].last_time_kst) } }
     \cup UNION { { MinuteKeyFromUsg(sections[n].usg[i].row.last_time_kst) :
                       i \in 1..Len(sections[n].usg) } : n \in 1..Len(sections) })
    \ { << >> }

\* set(m for m, _ in usg_minutes if m)
UsgMinSet(sub_u) ==
    { MinuteKeyFromUsg(sub_u[i].last_time_kst) :
        i \in { j \in 1..Len(sub_u) : ~IsNull(sub_u[j].last_time_kst) } } \ { << >> }

\* set(m for m, _ in rct_minutes if m)
RctMinSet(sub_r) ==
    { MinuteKeyFromRctUtcToKst(sub_r[i].last_time_moved_utc) :
        i \in { j \in 1..Len(sub_r) : ~IsNull(sub_r[j].last_time_moved_utc) } } \ { << >> }

\* Mutant: a placeholder text, not "", stands for "no minute".
MostRecentPlaceholder(S) == IF S = {} THEN << "-" >> ELSE StrMax(S)

\* max(s) if s else ""
MostRecent(S) == IF S = {} THEN << >> ELSE StrMax(S)

\* Mutant: the most-recent test comes before the intersection test.
RowClassRedFirst(mk, intersect_minutes, own, other) ==
    IF mk # << >>
    THEN IF own # << >> /\ other # << >> /\ mk = own /\ own # other THEN "red"
         ELSE IF mk \in intersect_minutes THEN "blue"
         ELSE ""
    ELSE ""

\* Mutant: every unmatched minute is flagged, not only the most recent one.
RowClassAnyUnmatched(mk, intersect_minutes, own, other) ==
    IF mk # << >>
    THEN IF mk \in intersect_minutes THEN "blue"
         ELSE IF own # << >> /\ other # << >> /\ own # other THEN "red"
         ELSE ""
    ELSE ""

\* Mutant: the other source's most recent minute is not tested for emptiness.
RowClassIgnoreOtherEmpty(mk, intersect_minutes, own, other) ==
    IF mk # << >>
    THEN IF mk \in intersect_minutes THEN "blue"
         ELSE IF own # << >> /\ mk = own /\ own # other THEN "red"
         ELSE ""
    ELSE ""

\* Mutant: the row is compared with the other source's most recent minute.
RowClassOtherLatest(mk, intersect_minutes, own, other) ==
    IF mk # << >>
    THEN IF mk \in intersect_minutes THEN "blue"
         ELSE IF own # << >> /\ other # << >> /\ mk = other /\ own # other THEN "red"
         ELSE ""
    ELSE ""

\* The row class of the table loops: "blue", "red" or "" for the minute key
\* mk of a row, `own` the most recent minute of the row's source and `other`
\* that of the other source.
RowClass(mk, intersect_minutes, own, other) ==
    IF mk # << >>
    THEN IF mk \in intersect_minutes THEN "blue"
         ELSE IF own # << >> /\ other # << >> /\ mk = own /\ own # other THEN "red"
         ELSE ""
    ELSE ""

\* sub_u.sort_values(by="last_time_kst", ascending=False): missing values last
KstBefore(a, b) ==
    /\ ~IsNull(a.last_time_kst)
    /\ (IsNull(b.last_time_kst) \/ StrLess(b.last_time_kst, a.last_time_kst))

KstBeforePairs(rows) ==
    { ij \in (1..Len(rows)) \X (1..Len(rows)) : KstBefore(rows[ij[1]], rows[ij[2]]) }

\* ------------------------------------------------------------ environment

\* Largest number of rows of table recent_tasks, of rows of table data, and of
\* files under the snapshot directory.
MaxRct == 2

MaxUsg == 2

MaxFiles == 2

\* The non-decreasing index sequences of length at most n over 1..k: one per
\* multiset of at most n rows drawn from k row values (a table is a bag).
IndexBags(n, k) ==
    UNION { { f \in [1..l -> 1..k] : \A i, j \in 1..l : i <= j => f[i] <= f[j] } : l \in 0..n }

TablesOver(rowValues, n) ==
    { [exists |-> TRUE, rows |-> [i \in 1..Len(f) |-> rowValues[f[i]]]] :
        f \in IndexBags(n, Len(rowValues)) }

AbsentDb == [exists |-> FALSE, rows |-> << >>]

\* Epoch instants (whole seconds, milliseconds) used by the inputs:
\* 2024-01-01 01:05:00, 01:09:00, 01:09:30.500, 01:12:00 and 01:12:40 UTC,
\* i.e. 10:05, 10:09, 10:09, 10:12 and 10:12 in UTC+9.
T1005 == IntMs(1704071100, 0)

T1009 == IntMs(1704071340, 0)

T1009b == IntMs(1704071370, 500)

T1012 == IntMs(1704071520, 0)

T1012b == IntMs(1704071560, 0)

ActivityP == << "p", "/", ".", "M" >>

ActivityQ == << "q", "/", ".", "M" >>

PkgP == << "p" >>

PkgQ == << "q" >>

NotIsoText == << "N", "/", "A" >>

TaskId1 == << "1" >>

\* A recent_tasks row as the decoder writes it for a task moved at `ltm`.
DecodedTask(tid, ra, ltm, snap) == RctRow(tid, ra, ltm, MsToIso(ltm), snap)

\* Rows of recent_tasks for the correlation runs: two subjects, three
\* minutes, a row without UTC text and a row whose UTC text is not ISO.
CorrRctValues ==
    << DecodedTask(TaskId1, ActivityP, T1005, NULL),
       DecodedTask(TaskId1, ActivityP, T1009, NULL),
       DecodedTask(TaskId1, ActivityP, T1012, NULL),
       DecodedTask(TaskId1, ActivityP, T1012b, NULL),
       DecodedTask(TaskId1, ActivityQ, T1005, NULL),
       DecodedTask(TaskId1, ActivityQ, T1012, NULL),
       RctRow(TaskId1, ActivityP, NullValue, NULL, NULL),
       RctRow(TaskId1, ActivityP, IntMs(0, 0), NotIsoText, NULL) >>

\* Rows of data for the correlation runs.
CorrUsgValues ==
    << UsgRow("event-log", T1005, PkgP, "ACTIVITY_RESUMED"),
       UsgRow("event-log", T1009, PkgP, "ACTIVITY_RESUMED"),
       UsgRow("event-log", T1009b, PkgP, "ACTIVITY_PAUSED"),
       UsgRow("event-log", T1012, PkgP, "ACTIVITY_STOPPED"),
       UsgRow("event-log", T1005, PkgQ, "ACTIVITY_RESUMED"),
       UsgRow("event-log", T1012, PkgQ, "ACTIVITY_PAUSED"),
       UsgRow("event-log", NullValue, PkgP, "ACTIVITY_RESUMED"),
       UsgRow("packages", T1005, PkgP, "") >>

File(dir, name) == [dir |-> dir, name |-> name]

DirD == << "d" >>

DirE == << "e" >>

AbsentDir == [exists |-> FALSE, files |-> {}]

DirsOver(fileValues, n) ==
    { [exists |-> TRUE, files |-> F] : F \in { G \in SUBSET fileValues : Cardinality(G) <= n } }

Name42Reduced == << "4", "2", "_", "r", "e", "d", "u", "c", "e", "d", ".", "p", "n", "g" >>

\* Files of the snapshot directory for the artifact runs.
ArtFileValues ==
    { File(DirD, Name42Reduced),
      File(DirE, << "4", "2", "_", "R", "E", "D", "U", "C", "E", "D", ".", "P", "N", "G" >>),
      File(DirD, << "x", "4", "2", ".", "p", "n", "g" >>),
      File(DirD, << "4", "2", ".", "j", "p", "e", "g" >>),
      File(DirD, << "s", ".", "p", "n", "g" >>),
      File(DirE, << "S", ".", "P", "N", "G" >>),
      File(DirD, << "x", "s", ".", "p", "n", "g" >>),
      File(DirD, << "n", "o", "n", "e" >>) }

\* Rows of recent_tasks for the artifact runs: task ids with and without
\* digits, with and without a stored snapshot name.
ArtRctValues ==
    << DecodedTask(<< "4", "2" >>, ActivityP, T1005, NULL),
       DecodedTask(<< "t" >>, ActivityP, T1005, NULL),
       DecodedTask(<< "4", "2" >>, ActivityP, T1005, << "s", ".", "p", "n", "g" >>),
       DecodedTask(<< "t" >>, ActivityQ, T1005, << "S", ".", "P", "N", "G" >>),
       DecodedTask(<< "t", "4", "_", "2" >>, ActivityQ, T1005, NULL) >>

\* No collaborator decoder is part of the run.
NoDecoderRun ==
    /\ dec_prog = "none"
    /\ dec_items = << >>
    /\ dec_pos = 1
    /\ dec_rows = << >>
    /\ dec_db = << >>
    /\ dec_state = "idle"

\* The iOS report does not run.
NoIosRun ==
    /\ ios_dir = [exe |-> FALSE, ktx |-> {}, kc |-> [exists |-> FALSE, rows |-> << >>],
                  appstate |-> [exists |-> FALSE, rows |-> << >>]]
    /\ ios_pc = "none"
    /\ png_files = << >>
    /\ kc_df = << >>
    /\ app_df = << >>
    /\ ios_sections = << >>

\* The report has not started.
ReportAtEntry ==
    /\ pc = "main"
    /\ df_rct = << >>
    /\ df_usg = << >>
    /\ snap_index = << >>
    /\ pkgs = << >>
    /\ pos = 1
    /\ sections = << >>
    /\ written = FALSE

\* State at the entry of main, for every input in the given sets.
InitWith(rctDbs, usgDbs, snapDirs) ==
    /\ NoDecoderRun
    /\ NoIosRun
    /\ rct_db \in rctDbs
    /\ usg_db \in usgDbs
    /\ snap_dir \in snapDirs
    /\ ReportAtEntry

\* df_r = read_recenttasks(...)
ReadRecentTasks ==
    /\ pc = "main"
    /\ df_rct' \in (IF rct_db.exists THEN ReadRecentTasksRows(rct_db.rows) ELSE { << >> })
    /\ pc' = "rct_read"
    /\ UNCHANGED << env, df_usg, snap_index, pkgs, pos, sections, written >>

\* df_u = read_usagestats(...)
ReadUsageStats ==
    /\ pc = "rct_read"
    /\ df_usg' \in (IF usg_db.exists THEN ReadUsageStatsRows(usg_db.rows) ELSE { << >> })
    /\ pc' = "usg_read"
    /\ UNCHANGED << env, df_rct, snap_index, pkgs, pos, sections, written >>

\* build_html: snap_index = index_snapshots(snap_dir), for any traversal order
IndexSnapshots ==
    /\ pc = "usg_read"
    /\ \E files \in (IF snap_dir.exists THEN Orders(snap_dir.files) ELSE { << >> }) :
          snap_index' = IndexFiles(<< >>, files)
    /\ pc' = "indexed"
    /\ UNCHANGED << env, df_rct, df_usg, pkgs, pos, sections, written >>

\* Mutant: records that carry the same fields are counted once.
SnapshotScoreDistinct(df, index, pkg) ==
    Cardinality({ SubsetOf(df, pkg)[i] :
                    i \in { j \in 1..Len(SubsetOf(df, pkg)) :
                               ScoreRowFound(SubsetOf(df, pkg)[j], index) } })

\* _snapshot_score_for_pkg
SnapshotScoreForPkg(df, index, pkg) ==
    Cardinality({ i \in 1..Len(SubsetOf(df, pkg)) : ScoreRowFound(SubsetOf(df, pkg)[i], index) })

\* Mutant: the subjects are ranked by id alone.
RankBeforeLexical(df, index, x, y) == StrLess(x, y)

\* Mutant: the subjects are ranked by the place of their first task record.
RankBeforeFrameOrder(df, index, x, y) ==
    \/ Cardinality({ i \in 1..Len(df) : \A j \in 1..i : Pkg2(df[j].package) # x })
         < Cardinality({ i \in 1..Len(df) : \A j \in 1..i : Pkg2(df[j].package) # y })
    \/ /\ Cardinality({ i \in 1..Len(df) : \A j \in 1..i : Pkg2(df[j].package) # x })
            = Cardinality({ i \in 1..Len(df) : \A j \in 1..i : Pkg2(df[j].package) # y })
       /\ StrLess(x, y)

\* The key (-score, x) of one subject sorts before that of another.
RankBefore(df, index, x, y) ==
    \/ SnapshotScoreForPkg(df, index, x) > SnapshotScoreForPkg(df, index, y)
    \/ /\ SnapshotScoreForPkg(df, index, x) = SnapshotScoreForPkg(df, index, y)
       /\ StrLess(x, y)

\* Mutant: only the subjects of the task frame are ranked.
PkgsAllRct(dfr, dfu) == { Pkg2(dfr[i].package) : i \in 1..Len(dfr) }

\* pkgs_all: the subjects of both frames
PkgsAll(dfr, dfu) ==
    { Pkg2(dfr[i].package) : i \in 1..Len(dfr) } \cup { Pkg2(dfu[i].package) : i \in 1..Len(dfu) }

\* sorted(pkgs_all, key=lambda x: (-_snapshot_score_for_pkg(x), x))
RankedPkgs(dfr, dfu, index) ==
    CHOOSE f \in Orders(PkgsAll(dfr, dfu)) :
        \A i, j \in 1..Len(f) : i < j => RankBefore(dfr, index, f[i], f[j])

\* build_html: the ranked subject list
RankSubjects ==
    /\ pc = "indexed"
    /\ pkgs' = RankedPkgs(df_rct, df_usg, snap_index)
    /\ pos' = 1
    /\ pc' = "loop"
    /\ UNCHANGED << env, df_rct, df_usg, snap_index, sections, written >>

\* The UsageStats table of a subject's section: every row of sub_u with its
\* class, for the row order `arr` of the sort.
UsgTable(arr, intersect_minutes, most_recent_usg_min, most_recent_rct_min) ==
    [ i \in 1..Len(arr) |->
        [row |-> arr[i],
         cls |-> RowClass(MinuteKeyFromUsg(arr[i].last_time_kst), intersect_minutes,
                          most_recent_usg_min, most_recent_rct_min)] ]

\* The RecentTasks table of a subject's section.
RctTable(sub_r, intersect_minutes, most_recent_usg_min, most_recent_rct_min) ==
    [ i \in 1..Len(sub_r) |->
        [row |-> sub_r[i],
         cls |-> RowClass(MinuteKeyFromRctUtcToKst(sub_r[i].last_time_moved_utc),
                          intersect_minutes, most_recent_rct_min, most_recent_usg_min)] ]

\* A directory on a drive other than the one of the report (Windows).
DirOtherDrive == << "D", ":" >>

\* os.path.relpath(found, start=out_path.parent) raises ValueError when the
\* file and the report are on different drives.
RelpathRaises(path) == path.dir = DirOtherDrive

\* The display-image search of every row of sub_r, and the image set.
Resolutions(sub_r, index) == [ i \in 1..Len(sub_r) |-> ResolveDisplay(sub_r[i], index) ]

Images(res) == { res[i].path : i \in { j \in 1..Len(res) : res[j].found } }

\* The section of subject pkg for the row order `arr` of the usage table.
SectionOf(pkg, sub_r, arr, usg_min_set, rct_min_set, res) ==
    [pkg  |-> pkg,
     intersect_minutes |-> usg_min_set \cap rct_min_set,
     most_recent_usg_min |-> MostRecent(usg_min_set),
     most_recent_rct_min |-> MostRecent(rct_min_set),
     usg  |-> UsgTable(arr, usg_min_set \cap rct_min_set,
                       MostRecent(usg_min_set), MostRecent(rct_min_set)),
     rct  |-> RctTable(sub_r, usg_min_set \cap rct_min_set,
                       MostRecent(usg_min_set), MostRecent(rct_min_set)),
     nodata |-> (sub_r = << >> /\ arr = << >>),
     resolved |-> res,
     imgs |-> Images(res)]

\* One iteration of the loop over pkgs for the subsets sub_r and sub_u of the
\* subject and the resolutions res of its task records: the section is
\* appended, unless os.path.relpath raises for a resolved file, which ends
\* build_html with nothing written.
SectionStep(pkg, sub_r, sub_u, res) ==
    IF \E i \in 1..Len(res) : res[i].found /\ RelpathRaises(res[i].path)
    THEN /\ pc' = "failed"
         /\ UNCHANGED << sections, pos >>
    ELSE /\ \E arr \in Arrangements(sub_u, KstBeforePairs(sub_u)) :
               sections' = Append(sections,
                   SectionOf(pkg, sub_r, arr, UsgMinSet(sub_u), RctMinSet(sub_r), res))
         /\ pos' = pos + 1
         /\ pc' = pc

SubsetStep(pkg, sub_r, sub_u) == SectionStep(pkg, sub_r, sub_u, Resolutions(sub_r, snap_index))

\* build_html: one iteration of the loop over pkgs
SubjectSection ==
    /\ pc = "loop"
    /\ pos <= Len(pkgs)
    /\ SubsetStep(pkgs[pos], SubsetOf(df_rct, pkgs[pos]), SubsetOf(df_usg, pkgs[pos]))
    /\ UNCHANGED << env, df_rct, df_usg, snap_index, pkgs, written >>

\* build_html: out_path.write_text(...)
WriteReport ==
    /\ pc = "loop"
    /\ pos > Len(pkgs)
    /\ written' = TRUE
    /\ pc' = "done"
    /\ UNCHANGED << env, df_rct, df_usg, snap_index, pkgs, pos, sections >>

Next ==
    \/ ReadRecentTasks
    \/ ReadUsageStats
    \/ IndexSnapshots
    \/ RankSubjects
    \/ SubjectSection
    \/ WriteReport

\* Runs over the correlation inputs: both databases vary, the snapshot
\* directory holds one file.
Init ==
    InitWith(TablesOver(CorrRctValues, MaxRct) \cup {AbsentDb},
             TablesOver(CorrUsgValues, MaxUsg) \cup {AbsentDb},
             { [exists |-> TRUE, files |-> {File(DirD, << "1", ".", "j", "p", "g" >>)}] })

Spec == Init /\ [][Next]_vars

\* Runs over the artifact inputs: the task rows and the snapshot files vary.
InitArtifacts ==
    InitWith(TablesOver(ArtRctValues, MaxRct),
             { [exists |-> TRUE, rows |-> << CorrUsgValues[1] >>] },
             DirsOver(ArtFileValues, MaxFiles) \cup {AbsentDir})

SpecArtifacts == InitArtifacts /\ [][Next]_vars

\* The placeholder the task decoder stores for a missing real_activity.
NotAvailable == << "N", "/", "A" >>

\* Descriptors (column real_activity) for the subject runs: none, empty,
\* blank, the placeholder, and texts for each pattern of _extract_package.
DescriptorValues ==
    << NULL,
       << >>,
       << " " >>,
       NotAvailable,
       << "x", "/", "{", "p", "/", ".", "M", "}" >>,
       << "{", "/", "{", "q", ".", "r", "/", "M", "}" >>,
       ActivityP,
       << "p", ".", "q", " ", "M" >>,
       << " ", "p", ".", "q", " " >>,
       << "a", ".", "b", ".", "c", ":", "d" >>,
       << "-", "a", ".", ":", "b", ".", "c" >>,
       << "p", ":" >> >>

\* Rows of recent_tasks for the subject runs, one per descriptor.
SubjRctValues ==
    [ i \in 1..Len(DescriptorValues) |-> DecodedTask(TaskId1, DescriptorValues[i], T1005, NULL) ]

\* Rows of data for the subject runs: a package, the empty package the
\* decoder stores when the event has none, and NULL.
SubjUsgValues ==
    << UsgRow("event-log", T1005, PkgP, "ACTIVITY_RESUMED"),
       UsgRow("event-log", T1005, << >>, "ACTIVITY_RESUMED"),
       UsgRow("event-log", T1005, NULL, "ACTIVITY_PAUSED") >>

\* Runs over the subject inputs: the descriptors and the packages vary.
InitSubjects ==
    InitWith(TablesOver(SubjRctValues, MaxRct),
             TablesOver(SubjUsgValues, MaxUsg),
             { [exists |-> TRUE, files |-> {File(DirD, << "1", ".", "j", "p", "g" >>)}] })

SpecSubjects == InitSubjects /\ [][Next]_vars

\* Inputs of the fault runs.  Task rows: subject p with a digit id at 10:05
\* and without digit at 10:12, subject q without digit at 10:05.
FaultRctValues ==
    << DecodedTask(<< "4", "2" >>, ActivityP, T1005, NULL),
       DecodedTask(<< "t" >>, ActivityP, T1012, NULL),
       DecodedTask(<< "t" >>, ActivityQ, T1005, NULL) >>

\* Usage rows: subject p at 10:05 and 10:09, subject q at 10:12.
FaultUsgValues == << CorrUsgValues[1], CorrUsgValues[2], CorrUsgValues[6] >>

\* Snapshot files of the task with id 42 and of no task, under a directory
\* of the report's drive and under one of another drive.
FaultFileNames == { << "4", "2", ".", "j", "p", "e", "g" >>, << "x", ".", "p", "n", "g" >> }

\* Runs over the fault inputs: each database and the snapshot directory may
\* be missing, and the directory may be on another drive than the report.
InitFaults ==
    InitWith(TablesOver(FaultRctValues, MaxRct) \cup {AbsentDb},
             TablesOver(FaultUsgValues, MaxUsg) \cup {AbsentDb},
             DirsOver({ File(DirD, nm) : nm \in FaultFileNames }, MaxFiles)
                 \cup DirsOver({ File(DirOtherDrive, nm) : nm \in FaultFileNames }, MaxFiles)
                 \cup {AbsentDir})

SpecFaults == InitFaults /\ [][Next]_vars

\* ------------------------------------------------- collaborator decoders

\* The value of an attribute that an element does not carry.
Absent == << "<ABSENT>" >>

\* dict.get(key, default) of a text attribute
AttrGet(v, default) == IF v = Absent THEN default ELSE v

\* A number that an element or object does not carry.
AbsentValue == [t |-> "absent"]

\* dict.get(key, default) of a number
ValueGet(v, default) == IF v.t = "absent" THEN default ELSE v

\* Largest number of files or blobs of a decoder run.
MaxItems == 3

\* os.path.splitext(name)[0]: the name up to its last dot, leading dots kept.
SplitExtRoot(name) ==
    LET P == { i \in 2..Len(name) : name[i] = "." /\ \E j \in 1..(i - 1) : name[j] # "." }
    IN  IF P = {} THEN name ELSE SubSeq(name, 1, MaxPos(P) - 1)

\* A file under recent_tasks: its name and what ET.parse / abxread makes of
\* it, a root element with its attributes or an exception.
TaskFile(name, root) == [name |-> name, root |-> root]

BrokenXml == [parses |-> FALSE]

TaskRoot(ra, ltm) == [parses |-> TRUE, real_activity |-> ra, last_time_moved |-> ltm]

\* parse_recent_task: the tuple to insert, or None when anything raised.  The
\* run's snapshots folder holds no file of the task, so that
\* find_snapshot_for_task returns None.
ParseRecentTask(file) ==
    IF ~file.root.parses THEN [ok |-> FALSE]
    ELSE [ok |-> TRUE,
          row |-> DecodedTask(SplitExtRoot(file.name),
                              AttrGet(file.root.real_activity, NotAvailable),
                              ValueGet(file.root.last_time_moved, IntMs(0, 0)),
                              NULL)]

\* process_recent_tasks, one turn of the loop over the files: a parsed file is
\* inserted and committed, a file that failed to parse is passed over.
ParseRecentTaskFile ==
    /\ dec_prog = "recent_tasks"
    /\ dec_state = "running"
    /\ dec_pos <= Len(dec_items)
    /\ dec_db' = (IF ParseRecentTask(dec_items[dec_pos]).ok
                  THEN Append(dec_db, ParseRecentTask(dec_items[dec_pos]).row)
                  ELSE dec_db)
    /\ dec_pos' = dec_pos + 1
    /\ UNCHANGED << report, ios, dec_prog, dec_items, dec_rows, dec_state >>

\* process_recent_tasks after the loop: conn.close() and the listing.
FinishRecentTasks ==
    /\ dec_prog = "recent_tasks"
    /\ dec_state = "running"
    /\ dec_pos > Len(dec_items)
    /\ dec_state' = "done"
    /\ UNCHANGED << report, ios, dec_prog, dec_items, dec_pos, dec_rows, dec_db >>

\* Mutant: the offsets are counted from 1970-01-01.
UnixEpochDays == DaysFromCivil(1970, 1, 1)

\* Days from 1970-01-01 to COCOA_EPOCH, 2001-01-01.
CocoaEpochDays == DaysFromCivil(2001, 1, 1)

LocalOffsetHours == 9

\* NS.time: seconds since COCOA_EPOCH, held as whole seconds and milliseconds.
NsTime(sec, ms) == [t |-> "real", sec |-> sec, ms |-> ms]

\* (COCOA_EPOCH + sec + offset).strftime("%Y-%m-%d %H:%M:%S.%f")[:-3]
CreationTextOf(local, ms) ==
    FormatMinute(CocoaEpochDays + local \div 86400, (local % 86400) \div 60)
    \o << ":" >> \o Pad(local % 60, 2) \o << "." >> \o Pad(ms, 3)

\* creation_dt_str: empty without a creationDate
CreationText(cd) ==
    IF cd.t = "absent" THEN << >>
    ELSE CreationTextOf(cd.sec + LocalOffsetHours * 3600, cd.ms)

\* A row of kvs joined with application_identifier_tab: the bundle id and
\* what plistlib makes of the blob, the groups of the manifest or an
\* exception.
ManifestRow(bundle_id, manifest) == [bundle_id |-> bundle_id, manifest |-> manifest]

BrokenBlob == [decodes |-> FALSE]

Manifest(groups) == [decodes |-> TRUE, groups |-> groups]

SnapGroup(name, snaps) == [name |-> name, snaps |-> snaps]

Snap(creationDate, relativePath) ==
    [creationDate |-> creationDate, relativePath |-> relativePath]

\* decode_snapshot_manifest_blob, the rows of one group
GroupSnaps(g) ==
    [ i \in 1..Len(g.snaps) |->
        [creation_date_local |-> CreationText(g.snaps[i].creationDate),
         snapshot_group |-> g.name,
         relative_path |-> AttrGet(g.snaps[i].relativePath, << >>),
         snapshot_index |-> i - 1] ]

\* decode_snapshot_manifest_blob, the rows of all groups
RECURSIVE ManifestSnaps(_)
ManifestSnaps(groups) ==
    IF groups = << >> THEN << >>
    ELSE GroupSnaps(Head(groups)) \o ManifestSnaps(Tail(groups))

\* extract_all_snapshots: the row appended for a decoded snapshot
SnapshotRow(bundle_id, snap) ==
    [creation_date |-> snap.creation_date_local, bundle_id |-> bundle_id,
     snapshot_group |-> snap.snapshot_group, relative_path |-> snap.relative_path,
     snapshot_index |-> snap.snapshot_index]

SnapshotRows(bundle_id, snaps) ==
    [ i \in 1..Len(snaps) |-> SnapshotRow(bundle_id, snaps[i]) ]

\* The sort key of extract_all_snapshots, compared as Python compares tuples.
SnapshotRowLess(a, b) ==
    IF a.creation_date # b.creation_date THEN StrLess(a.creation_date, b.creation_date)
    ELSE IF a.bundle_id # b.bundle_id THEN StrLess(a.bundle_id, b.bundle_id)
    ELSE IF a.snapshot_group # b.snapshot_group
         THEN StrLess(a.snapshot_group, b.snapshot_group)
    ELSE a.snapshot_index < b.snapshot_index

\* list.sort is stable: a row goes behind the rows that are not greater.
SortedInsert(sorted, r, k) == SubSeq(sorted, 1, k) \o << r >> \o SubSeq(sorted, k + 1, Len(sorted))

RECURSIVE SortSnapshotRows(_)
SortSnapshotRows(rows) ==
    IF rows = << >> THEN << >>
    ELSE SortedInsert(SortSnapshotRows(SubSeq(rows, 1, Len(rows) - 1)),
                      rows[Len(rows)],
                      Cardinality({ i \in 1..(Len(rows) - 1) :
                                      ~SnapshotRowLess(rows[Len(rows)], rows[i]) }))

\* extract_all_snapshots, one turn of the loop over the blobs: the rows of a
\* decoded blob are appended, a blob that failed to decode is passed over.
DecodeManifestBlob ==
    /\ dec_prog = "appstate"
    /\ dec_state = "running"
    /\ dec_pos <= Len(dec_items)
    /\ dec_rows' = (IF dec_items[dec_pos].manifest.decodes
                    THEN dec_rows \o SnapshotRows(dec_items[dec_pos].bundle_id,
                                       ManifestSnaps(dec_items[dec_pos].manifest.groups))
                    ELSE dec_rows)
    /\ dec_pos' = dec_pos + 1
    /\ UNCHANGED << report, ios, dec_prog, dec_items, dec_db, dec_state >>

\* extract_all_snapshots after the loop and write_csv: the rows are sorted
\* and written; without rows nothing is written.
WriteSnapshots ==
    /\ dec_prog = "appstate"
    /\ dec_state = "running"
    /\ dec_pos > Len(dec_items)
    /\ dec_rows' = SortSnapshotRows(dec_rows)
    /\ dec_db' = SortSnapshotRows(dec_rows)
    /\ dec_state' = "done"
    /\ UNCHANGED << report, ios, dec_prog, dec_items, dec_pos >>

\* int(s) succeeds: an optional minus sign and digits.
IsIntText(s) ==
    /\ s # Absent
    /\ s # << >>
    /\ (IF Head(s) = "-" THEN Tail(s) # << >> /\ AllDigits(Tail(s)) ELSE AllDigits(s))

\* int(s) of such a text
IntText(s) == IF Head(s) = "-" THEN 0 - ParseNat(Tail(s)) ELSE ParseNat(s)

\* int(name) of a file name of digits: epoch milliseconds, held as whole
\* seconds and the remaining milliseconds.
EpochOfName(name) ==
    IF Len(name) <= 3 THEN IntMs(0, ParseNat(name))
    ELSE IntMs(ParseNat(SubSeq(name, 1, Len(name) - 3)),
               ParseNat(SubSeq(name, Len(name) - 2, Len(name))))

\* finalt = abs(t) if t < 0 else int(base_epoch + t)
FinalTime(base, t) ==
    IF t < 0 THEN IntMs((0 - t) \div 1000, (0 - t) % 1000)
    ELSE IntMs(base.sec + (base.ms + t) \div 1000, (base.ms + t) % 1000)

\* A file under usagestats: its name and what ET.parse or ParseFromString
\* makes of it: the entries of the elements of an XML document in document
\* order, the event_log of a protobuf message (v1 IntervalStatsProto, or v2
\* IntervalStatsObfuscatedProto under a root with a mappings file), or
\* neither.
UsageFile(name, content) == [name |-> name, content |-> content]

NotXml == [xml |-> FALSE, pb |-> FALSE]

XmlStats(entries) == [xml |-> TRUE, pb |-> FALSE, entries |-> entries]

PbStats(v2, events) == [xml |-> FALSE, pb |-> TRUE, v2 |-> v2, entries |-> events]

\* An event of a protobuf event_log: HasField("time_ms") and time_ms,
\* HasField("type") and type, and the package its index or token resolves to.
PbEvent(has_time, time_ms, package, has_type, type) ==
    [has_time |-> has_time, time_ms |-> time_ms, package |-> package,
     has_type |-> has_type, type |-> type]

\* class EventType: the names of the values 0..30
EventType ==
    << "NONE", "ACTIVITY_RESUMED", "ACTIVITY_PAUSED", "END_OF_DAY",
       "CONTINUE_PREVIOUS_DAY", "CONFIGURATION_CHANGE", "SYSTEM_INTERACTION",
       "USER_INTERACTION", "SHORTCUT_INVOCATION", "CHOOSER_ACTION",
       "NOTIFICATION_SEEN", "STANDBY_BUCKET_CHANGED", "NOTIFICATION_INTERRUPTION",
       "SLICE_PINNED_PRIV", "SLICE_PINNED", "SCREEN_INTERACTIVE",
       "SCREEN_NON_INTERACTIVE", "KEYGUARD_SHOWN", "KEYGUARD_HIDDEN",
       "FOREGROUND_SERVICE_START", "FOREGROUND_SERVICE_STOP",
       "CONTINUING_FOREGROUND_SERVICE", "ROLLOVER_FOREGROUND_SERVICE",
       "ACTIVITY_STOPPED", "ACTIVITY_DESTROYED", "FLUSH_TO_DISK",
       "DEVICE_SHUTDOWN", "DEVICE_STARTUP", "USER_UNLOCKED", "USER_STOPPED",
       "LOCUS_ID_SET" >>

\* tipes = str(EventType(ev.type)) if ev.type <= max(EventType).value else
\* str(ev.type), "" without the field; type is an enum value, never negative.
EventTypeText(ev) ==
    IF ~ev.has_type THEN ""
    ELSE IF ev.type <= Len(EventType) - 1 THEN EventType[ev.type + 1]
    ELSE ToString(ev.type)

\* _add_v1_to_db and _add_v2_to_db, event-log: the row inserted for an event;
\* finalt is "" without a time_ms field.
EventRow(base, ev) ==
    UsgRow("event-log",
           IF ev.has_time THEN FinalTime(base, ev.time_ms) ELSE EmptyTextValue,
           ev.package, EventTypeText(ev))

EventRows(base, events) == [ i \in 1..Len(events) |-> EventRow(base, events[i]) ]

\* An entry of element `tag`: time is its attribute lastTimeActive (packages,
\* configurations) or time (event-log), type is attrib.get("type", "").
XmlEntry(tag, time, package, type) ==
    [tag |-> tag, time |-> time, package |-> package, type |-> type]

\* _parse_xml_or_v1_dir: int(sub.attrib[...]) raises KeyError for a missing
\* attribute and ValueError for a text that is no integer.
EntryRaises(e) == ~IsIntText(e.time)

\* _parse_xml_or_v1_dir: the row inserted for an entry
EntryRow(base, e) ==
    UsgRow(e.tag, FinalTime(base, IntText(e.time)),
           IF e.tag = "configurations" THEN << >> ELSE AttrGet(e.package, << >>),
           IF e.tag = "event-log" THEN e.type ELSE "")

EntryRows(base, entries) == [ i \in 1..Len(entries) |-> EntryRow(base, entries[i]) ]

VersionName == << "v", "e", "r", "s", "i", "o", "n" >>

\* _parse_xml_or_v1_dir: the file is passed over (the version file, a name
\* that is no timestamp, a content that is neither XML nor protobuf)
FileSkipped(f) ==
    f.name = VersionName \/ ~IsIntText(f.name) \/ (~f.content.xml /\ ~f.content.pb)

\* _parse_xml_or_v1_dir: an exception leaves the loop over the files
FileRaises(f) ==
    /\ ~FileSkipped(f)
    /\ f.content.xml
    /\ \E i \in 1..Len(f.content.entries) : EntryRaises(f.content.entries[i])

\* _parse_xml_or_v1_dir, _parse_v2_dir: the rows inserted for a file that is
\* read without an exception
FileRows(f) ==
    IF f.content.xml THEN EntryRows(EpochOfName(f.name), f.content.entries)
    ELSE EventRows(EpochOfName(f.name), f.content.entries)

\* _parse_xml_or_v1_dir, one turn of the loop over the files, and main around
\* it: neither catches what the XML branch raises, and the rows inserted
\* for the file are committed only after its last entry.
ParseUsageFile ==
    /\ dec_prog = "usagestats"
    /\ dec_state = "running"
    /\ dec_pos <= Len(dec_items)
    /\ IF FileRaises(dec_items[dec_pos])
       THEN /\ dec_state' = "crashed"
            /\ UNCHANGED << dec_db, dec_pos >>
       ELSE /\ dec_db' = (IF FileSkipped(dec_items[dec_pos]) THEN dec_db
                          ELSE dec_db \o FileRows(dec_items[dec_pos]))
            /\ dec_pos' = dec_pos + 1
            /\ dec_state' = dec_state
    /\ UNCHANGED << report, ios, dec_prog, dec_items, dec_rows >>

\* main after the loop over the folders: the count and db.close()
FinishUsageStats ==
    /\ dec_prog = "usagestats"
    /\ dec_state = "running"
    /\ dec_pos > Len(dec_items)
    /\ dec_state' = "done"
    /\ UNCHANGED << report, ios, dec_prog, dec_items, dec_pos, dec_rows, dec_db >>

\* ---------------------------------------------------- KnowledgeC decoder

\* A ZSTARTDATE / ZENDDATE value: Mac absolute time, seconds from 2001-01-01
\* UTC held as whole seconds and milliseconds, or NULL.
MacTime(sec, ms) == IntMs(sec, ms)

\* A row of the query of build_query over ZOBJECT.
KcObject(event_pk, stream, bundle_id, valuestring, start_mac, end_mac) ==
    [event_pk |-> event_pk, stream |-> stream, bundle_id |-> bundle_id,
     valuestring |-> valuestring, start_mac |-> start_mac, end_mac |-> end_mac]

\* pandas' NaT
NaT == [nat |-> TRUE]

\* mac_to_dt: datetime(2001, 1, 1) + timedelta(seconds=float(x)), NaT for NULL;
\* the datetime is held as seconds and milliseconds from 2001-01-01.
MacToDt(x) == IF x.t = "null" THEN NaT ELSE [nat |-> FALSE, sec |-> x.sec, ms |-> x.ms]

\* dt + pd.to_timedelta(h, unit="h")
PlusHours(dt, h) == IF dt.nat THEN NaT ELSE [nat |-> FALSE, sec |-> dt.sec + h * 3600, ms |-> dt.ms]

\* dt.strftime("%Y-%m-%dT%H:%M:%S.%fZ"), NULL for NaT
StrftimeIsoZ(dt) ==
    IF dt.nat THEN NULL
    ELSE ReplaceChar(FormatMinute(CocoaEpochDays + dt.sec \div 86400, (dt.sec % 86400) \div 60),
                     " ", "T")
         \o << ":" >> \o Pad(dt.sec % 60, 2) \o << "." >> \o Pad(dt.ms, 3)
         \o << "0", "0", "0", "Z" >>

\* (end - start).total_seconds(), NULL when either is NaT; seconds and
\* milliseconds of the difference.
DurationOfMs(total) == [t |-> "real", sec |-> total \div 1000, ms |-> total % 1000]

TotalSeconds(start, end) ==
    IF start.nat \/ end.nat THEN NullValue
    ELSE DurationOfMs((end.sec - start.sec) * 1000 + end.ms - start.ms)

\* convert_and_write: the row of table events for a row of the query
KcEvent(o) ==
    [event_pk |-> o.event_pk, stream |-> o.stream, bundle_id |-> o.bundle_id,
     valuestring |-> o.valuestring, start_mac |-> o.start_mac, end_mac |-> o.end_mac,
     start_utc_iso |-> StrftimeIsoZ(MacToDt(o.start_mac)),
     end_utc_iso |-> StrftimeIsoZ(MacToDt(o.end_mac)),
     start_kst_iso |-> StrftimeIsoZ(PlusHours(MacToDt(o.start_mac), 9)),
     end_kst_iso |-> StrftimeIsoZ(PlusHours(MacToDt(o.end_mac), 9)),
     duration_sec |-> TotalSeconds(MacToDt(o.start_mac), MacToDt(o.end_mac))]

\* ORDER BY ZOBJECT.ZSTARTDATE ASC
KcBeforePairs(rows) ==
    { ij \in (1..Len(rows)) \X (1..Len(rows)) :
        SqlLess(rows[ij[1]].start_mac, rows[ij[2]].start_mac) }

\* convert_and_write: the rows of the query are converted and written as
\* table events of a new output database.
ConvertAndWrite ==
    /\ dec_prog = "knowledgec"
    /\ dec_state = "running"
    /\ \E arr \in Arrangements(dec_items, KcBeforePairs(dec_items)) :
          dec_db' = [ i \in 1..Len(arr) |-> KcEvent(arr[i]) ]
    /\ dec_pos' = Len(dec_items) + 1
    /\ dec_state' = "done"
    /\ UNCHANGED << report, ios, dec_prog, dec_items, dec_rows >>

NextDecoders ==
    \/ ParseRecentTaskFile
    \/ FinishRecentTasks
    \/ DecodeManifestBlob
    \/ WriteSnapshots
    \/ ParseUsageFile
    \/ FinishUsageStats
    \/ ConvertAndWrite

\* The sequences of at most n of the given items.
ItemSeqs(values, n) == UNION { [1..l -> values] : l \in 0..n }

\* Task files: with both attributes, without them, and one that is no XML.
TaskFileValues ==
    { TaskFile(<< "4", "2", ".", "x", "m", "l" >>, TaskRoot(ActivityP, T1005)),
      TaskFile(<< "7", "_", "t", "a", "s", "k" >>, TaskRoot(Absent, AbsentValue)),
      TaskFile(<< "9", ".", "x", "m", "l" >>, BrokenXml) }

BundleA == << "c", "o", "m", ".", "a" >>

BundleB == << "c", "o", "m", ".", "b" >>

KtxA == << "A", ".", "k", "t", "x" >>

\* Manifest blobs: one with two snapshots of a group (the second without
\* date and path), one with a later snapshot, and one that is no plist.
ManifestValues ==
    { ManifestRow(BundleB, Manifest(<< SnapGroup(<< "g" >>, << Snap(NsTime(725850300, 250), KtxA),
                                                               Snap(AbsentValue, Absent) >>) >>)),
      ManifestRow(BundleA, Manifest(<< SnapGroup(<< "h" >>, << Snap(NsTime(725850360, 0), KtxA) >>) >>)),
      ManifestRow(BundleA, BrokenBlob) }

StatsName == << "1", "7", "0", "4", "0", "6", "7", "2", "0", "0", "0", "0", "0" >>

\* Usage files: an XML file of two entries, one whose second entry has no
\* time attribute, one whose entry's time is no number, one that is no XML,
\* one whose name is no timestamp, a v1 protobuf file with a resumed event,
\* a user interaction and a stopped event without time, and a v2 protobuf
\* file with a paused event and an event of a type past the last name.
UsageFileValues ==
    { UsageFile(StatsName, PbStats(FALSE, << PbEvent(TRUE, 5, PkgP, TRUE, 1),
                                             PbEvent(TRUE, 6, PkgP, TRUE, 7),
                                             PbEvent(FALSE, 0, PkgQ, TRUE, 23) >>)),
      UsageFile(StatsName, PbStats(TRUE, << PbEvent(TRUE, 5, PkgQ, TRUE, 2),
                                            PbEvent(TRUE, 7, PkgQ, TRUE, 31) >>)) } \cup
    { UsageFile(StatsName, XmlStats(<< XmlEntry("event-log", << "5" >>, PkgP, "1"),
                                       XmlEntry("packages", << "-", "7" >>, PkgQ, "") >>)),
      UsageFile(StatsName, XmlStats(<< XmlEntry("event-log", << "5" >>, PkgQ, "2"),
                                       XmlEntry("event-log", Absent, PkgP, "1") >>)),
      UsageFile(StatsName, XmlStats(<< XmlEntry("configurations", << "x" >>, Absent, "") >>)),
      UsageFile(StatsName, NotXml),
      UsageFile(<< "t", "m", "p" >>, XmlStats(<< XmlEntry("event-log", << "5" >>, PkgP, "1") >>)) }

\* Objects of KnowledgeC: an app in focus from 2023-12-31 14:59:30 to
\* 15:00:10 UTC, one of 400 seconds from 2024-02-29 15:30 UTC, one that ends
\* before it starts, and one without end.
KcObjectValues ==
    { KcObject(1, << "f" >>, BundleA, NULL, MacTime(725727570, 0), MacTime(725727610, 0)),
      KcObject(2, << "f" >>, BundleB, NULL, MacTime(730913400, 0), MacTime(730913800, 0)),
      KcObject(3, << "f" >>, NULL, NULL, MacTime(86399, 0), MacTime(0, 0)),
      KcObject(4, << "f" >>, BundleA, NULL, MacTime(725727570, 0), NullValue) }

\* Runs of the four collaborator decoders, each over every sequence of at
\* most MaxItems of its items; the report has not started.
InitDecoders ==
    /\ rct_db = AbsentDb
    /\ usg_db = AbsentDb
    /\ snap_dir = AbsentDir
    /\ ReportAtEntry
    /\ NoIosRun
    /\ dec_prog \in { "recent_tasks", "appstate", "usagestats", "knowledgec" }
    /\ dec_items \in (IF dec_prog = "recent_tasks" THEN ItemSeqs(TaskFileValues, MaxItems)
                      ELSE IF dec_prog = "appstate" THEN ItemSeqs(ManifestValues, MaxItems)
                      ELSE IF dec_prog = "usagestats" THEN ItemSeqs(UsageFileValues, MaxItems)
                      ELSE ItemSeqs(KcObjectValues, MaxItems))
    /\ dec_pos = 1
    /\ dec_rows = << >>
    /\ dec_db = << >>
    /\ dec_state = "running"

SpecDecoders == InitDecoders /\ [][NextDecoders]_vars

\* Instants for the instant runs: the epoch, the last millisecond of its
\* first minute, 2023-12-31 15:00 UTC (the next year in UTC+9), 2024-02-28
\* 14:59:59.999 UTC (the last minute of the day in UTC+9) and 2024-02-29
\* 15:30 UTC (the next month in UTC+9).
InstantValues ==
    << IntMs(0, 0), IntMs(59, 999), IntMs(1704034800, 0), IntMs(1709132399, 999),
       IntMs(1709220600, 0) >>

\* A task of subject p and a resumed activity of subject p at each instant.
InstRctValues ==
    [ i \in 1..Len(InstantValues) |-> DecodedTask(TaskId1, ActivityP, InstantValues[i], NULL) ]

InstUsgValues ==
    [ i \in 1..Len(InstantValues) |->
        UsgRow("event-log", InstantValues[i], PkgP, "ACTIVITY_RESUMED") ]

\* Runs over the instant inputs, without snapshot directory.
InitInstants ==
    InitWith(TablesOver(InstRctValues, MaxRct), TablesOver(InstUsgValues, MaxUsg),
             {AbsentDir})

SpecInstants == InitInstants /\ [][Next]_vars

\* The tables that hold at most n of the row values, in every row order.
TablesInOrder(rowValues, n) ==
    { [exists |-> TRUE, rows |-> s] :
        s \in UNION { [1..l -> { rowValues[i] : i \in 1..Len(rowValues) }] : l \in 0..n } }

\* Runs over the fault rows in every order of the rows of each table; the
\* snapshot directory holds the snapshot of task 42.
InitOrders ==
    InitWith(TablesInOrder(FaultRctValues, MaxRct), TablesInOrder(FaultUsgValues, MaxUsg),
             { [exists |-> TRUE, files |-> {File(DirD, << "4", "2", ".", "j", "p", "e", "g" >>)}] })

SpecOrders == InitOrders /\ [][Next]_vars

\* The decoder is invoked again, or for the first time.  With its input
\* folder or database missing it exits before it touches the output
\* (process_recent_tasks: SystemExit, usagestats main: return, kc main:
\* SystemExit); otherwise init_db removes the output database and creates an
\* empty one.  The KnowledgeC decoder removes the old output only when it
\* writes the new one.
Invoke ==
    /\ dec_prog \in { "recent_tasks", "usagestats", "knowledgec" }
    /\ dec_state \in { "idle", "done", "crashed", "rejected" }
    /\ \/ /\ dec_items' = << >>
          /\ dec_state' = "rejected"
          /\ UNCHANGED << dec_pos, dec_rows, dec_db >>
       \/ /\ dec_items' \in (IF dec_prog = "recent_tasks" THEN ItemSeqs(TaskFileValues, MaxItems)
                             ELSE IF dec_prog = "usagestats"
                             THEN ItemSeqs(UsageFileValues, MaxItems)
                             ELSE ItemSeqs(KcObjectValues, MaxItems))
          /\ dec_pos' = 1
          /\ dec_rows' = << >>
          /\ dec_db' = (IF dec_prog = "knowledgec" THEN dec_db ELSE << >>)
          /\ dec_state' = "running"
    /\ UNCHANGED << report, ios, dec_prog >>

NextRuns ==
    \/ Invoke
    \/ ParseRecentTaskFile
    \/ FinishRecentTasks
    \/ ParseUsageFile
    \/ FinishUsageStats
    \/ ConvertAndWrite

\* Sequences of invocations of one of the decoders that write a database;
\* no invocation has happened and there is no output yet.
InitRuns ==
    /\ rct_db = AbsentDb
    /\ usg_db = AbsentDb
    /\ snap_dir = AbsentDir
    /\ ReportAtEntry
    /\ NoIosRun
    /\ dec_prog \in { "recent_tasks", "usagestats", "knowledgec" }
    /\ dec_items = << >>
    /\ dec_pos = 1
    /\ dec_rows = << >>
    /\ dec_db = << >>
    /\ dec_state = "idle"

SpecRuns == InitRuns /\ [][NextRuns]_vars

\* ------------------------------------------------ decoders, then report

\* Task files of subject p: one without last_time_moved, one moved at
\* 2024-01-01 10:05 UTC+9.
UndatedTaskFile == TaskFile(<< "1", ".", "x", "m", "l" >>, TaskRoot(ActivityP, AbsentValue))

DatedTaskFile == TaskFile(<< "2", ".", "x", "m", "l" >>, TaskRoot(ActivityP, T1005))

\* Events of a v1 protobuf file named 1704067200000: a resumed event of
\* subject p without time_ms, one of subject q, and a paused event of subject
\* p at 2024-01-01 10:05 UTC+9.
UndatedEvents ==
    << PbEvent(FALSE, 0, PkgP, TRUE, 1), PbEvent(FALSE, 0, PkgQ, TRUE, 1),
       PbEvent(TRUE, 3900000, PkgP, TRUE, 2) >>

\* The rows the two decoders write for them.
UndatedRctValues == << ParseRecentTask(UndatedTaskFile).row, ParseRecentTask(DatedTaskFile).row >>

UndatedUsgValues == EventRows(EpochOfName(StatsName), UndatedEvents)

\* Runs of the report over databases written by the decoders from these
\* files, without snapshot directory.
InitUndated ==
    InitWith(TablesOver(UndatedRctValues, MaxRct), TablesOver(UndatedUsgValues, MaxUsg),
             {AbsentDir})

SpecUndated == InitUndated /\ [][Next]_vars

\* ------------------------------------------------------------ iOS report

\* sub in s
Contains(s, sub) ==
    \E i \in 1..(Len(s) - Len(sub) + 1) : SubSeq(s, i, i + Len(sub) - 1) = sub

DefaultGroup ==
    << "{", "D", "E", "F", "A", "U", "L", "T", " ", "G", "R", "O", "U", "P", "}" >>

\* str(base_dir)
BaseDir == << "/", "c", "a", "s", "e" >>

\* A .ktx file under base_dir: the parts of its path below base_dir, and
\* whether ios_ktx2png.exe converts it.
KtxFile(parts, converts) == [parts |-> parts, converts |-> converts]

RECURSIVE JoinParts(_)
JoinParts(parts) ==
    IF parts = << >> THEN << >>
    ELSE << "/" >> \o Head(parts) \o JoinParts(Tail(parts))

\* str(p) of a path below base_dir
PathText(parts) == BaseDir \o JoinParts(parts)

\* str(ktx.parent)
ParentText(parts) == PathText(SubSeq(parts, 1, Len(parts) - 1))

\* ktx.with_suffix(ktx.suffix + ".png")
PngPath(parts) ==
    SubSeq(parts, 1, Len(parts) - 1) \o << parts[Len(parts)] \o << ".", "p", "n", "g" >> >>

\* Path.__lt__: the parts are compared as lists of strings
RECURSIVE PartsLess(_, _)
PartsLess(a, b) ==
    IF b = << >> THEN FALSE
    ELSE IF a = << >> THEN TRUE
    ELSE IF Head(a) # Head(b) THEN StrLess(Head(a), Head(b))
    ELSE PartsLess(Tail(a), Tail(b))

\* sorted(base_dir.rglob("*.ktx"))
SortedKtx(files) ==
    CHOOSE arr \in [1..Cardinality(files) -> files] :
        \A i, j \in 1..Cardinality(files) : i < j => PartsLess(arr[i].parts, arr[j].parts)

\* Mutant: only the name of the folder that holds the file is tested.
KtxSkippedDirectParent(k) ==
    Len(k.parts) >= 2 /\ Contains(k.parts[Len(k.parts) - 1], DefaultGroup)

\* "{DEFAULT GROUP}" in str(ktx.parent)
KtxSkipped(k) == Contains(ParentText(k.parts), DefaultGroup)

\* run_ios_ktx2png_on_folder, the loop: the paths of the files converted
RECURSIVE ConvertedPngs(_)
ConvertedPngs(arr) ==
    IF arr = << >> THEN << >>
    ELSE (IF ~KtxSkipped(Head(arr)) /\ Head(arr).converts
          THEN << PngPath(Head(arr).parts) >> ELSE << >>)
         \o ConvertedPngs(Tail(arr))

\* run_ios_ktx2png_on_folder: SystemExit without the converter
RunIosKtx2Png ==
    /\ ios_pc = "ktx"
    /\ IF ~ios_dir.exe
       THEN /\ ios_pc' = "exit"
            /\ png_files' = png_files
       ELSE /\ png_files' = ConvertedPngs(SortedKtx(ios_dir.ktx))
            /\ ios_pc' = "kc"
    /\ UNCHANGED << report, decoder, ios_dir, kc_df, app_df, ios_sections >>

AppUsage == << "a", "p", "p", "/", "u", "s", "a", "g", "e" >>

\* stream LIKE '%app/usage%': NULL is not selected, letters match in any case
LikeAppUsage(stream) == ~IsNull(stream) /\ Contains(Lower(stream), AppUsage)

\* str(float("nan"))
NanText == << "n", "a", "n" >>

\* .astype(str) of a missing value: its text with pandas 1 and 2, "None"
\* of an object None and "nan" of a float NaN; it stays missing with pandas 3.
MissingTexts == { NoneText, NanText, NULL }

\* df["Bundle ID"]: bundle_id, filled from valuestring where it is missing,
\* as text and stripped
BundleIdOf(e, na) ==
    IF ~IsNull(e.bundle_id) THEN Strip(e.bundle_id)
    ELSE IF ~IsNull(e.valuestring) THEN Strip(e.valuestring)
    ELSE na

\* parse_knowledgec after convert_and_write: the app/usage events with their
\* Bundle ID, without the rows whose Bundle ID is ""
KcFrame(events, na) ==
    SelectSeq([ i \in 1..Len(events) |->
                  [event |-> events[i], bundle |-> BundleIdOf(events[i], na)] ],
              LAMBDA r : LikeAppUsage(r.event.stream) /\ r.bundle # << >>)

\* parse_knowledgec: an empty frame without KnowledgeC*.db
ParseKnowledgeC ==
    /\ ios_pc = "kc"
    /\ IF ~ios_dir.kc.exists
       THEN kc_df' = << >>
       ELSE \E arr \in Arrangements(ios_dir.kc.rows, KcBeforePairs(ios_dir.kc.rows)) :
            \E na \in MissingTexts :
                kc_df' = KcFrame([ i \in 1..Len(arr) |-> KcEvent(arr[i]) ], na)
    /\ ios_pc' = "appstate"
    /\ UNCHANGED << report, decoder, ios_dir, png_files, app_df, ios_sections >>

\* extract_all_snapshots: the rows of every blob that decodes, sorted
RECURSIVE AllSnapshotRows(_)
AllSnapshotRows(blobs) ==
    IF blobs = << >> THEN << >>
    ELSE (IF Head(blobs).manifest.decodes
          THEN SnapshotRows(Head(blobs).bundle_id, ManifestSnaps(Head(blobs).manifest.groups))
          ELSE << >>)
         \o AllSnapshotRows(Tail(blobs))

ExtractAllSnapshots(blobs) == SortSnapshotRows(AllSnapshotRows(blobs))

\* df["Snapshot Group"].str.contains(r"\{DEFAULT GROUP\}", case=False, na=False)
GroupExcluded(row) == Contains(Lower(row.snapshot_group), Lower(DefaultGroup))

\* parse_appstate: an empty frame without applicationState.db
ParseAppState ==
    /\ ios_pc = "appstate"
    /\ app_df' = (IF ~ios_dir.appstate.exists THEN << >>
                  ELSE SelectSeq(ExtractAllSnapshots(ios_dir.appstate.rows),
                                 LAMBDA r : ~GroupExcluded(r)))
    /\ ios_pc' = "html"
    /\ UNCHANGED << report, decoder, ios_dir, png_files, kc_df, ios_sections >>

\* The keys of kc_grouped and of app_grouped: str(b).strip() of every group
\* key of groupby, which leaves out the missing keys, when not empty.
KcKeys ==
    { Strip(kc_df[i].bundle) : i \in { j \in 1..Len(kc_df) : ~IsNull(kc_df[j].bundle) } }
    \ { << >> }

AppKeys ==
    { Strip(app_df[i].bundle_id) : i \in { j \in 1..Len(app_df) : ~IsNull(app_df[j].bundle_id) } }
    \ { << >> }

\* kc_grouped[b], app_grouped[b]: the group of the last key that strips to b
KcGroup(b) ==
    IF b \notin KcKeys THEN << >>
    ELSE SelectSeq(kc_df, LAMBDA r :
             ~IsNull(r.bundle)
             /\ r.bundle = StrMax({ kc_df[i].bundle :
                                      i \in { j \in 1..Len(kc_df) :
                                                ~IsNull(kc_df[j].bundle)
                                                /\ Strip(kc_df[j].bundle) = b } }))

AppGroup(b) ==
    IF b \notin AppKeys THEN << >>
    ELSE SelectSeq(app_df, LAMBDA r :
             ~IsNull(r.bundle_id)
             /\ r.bundle_id = StrMax({ app_df[i].bundle_id :
                                         i \in { j \in 1..Len(app_df) :
                                                   ~IsNull(app_df[j].bundle_id)
                                                   /\ Strip(app_df[j].bundle_id) = b } }))

\* png_map[b]: the converted files whose path holds the text b
PngMap(b) == SelectSeq(png_files, LAMBDA p : Contains(PathText(p), b))

\* sorted(set(list(kc_grouped.keys()) + list(app_grouped.keys())))
SortedTexts(S) ==
    CHOOSE arr \in [1..Cardinality(S) -> S] :
        \A i, j \in 1..Cardinality(S) : i < j => StrLess(arr[i], arr[j])

BundleIds == SortedTexts(KcKeys \cup AppKeys)

\* build_html_by_app: a section for every bundle id, and the report written
BuildHtmlByApp ==
    /\ ios_pc = "html"
    /\ ios_sections' = [ i \in 1..Len(BundleIds) |->
                           [bundle |-> BundleIds[i],
                            kc     |-> KcGroup(BundleIds[i]),
                            app    |-> AppGroup(BundleIds[i]),
                            pngs   |-> PngMap(BundleIds[i])] ]
    /\ ios_pc' = "done"
    /\ UNCHANGED << report, decoder, ios_dir, png_files, kc_df, app_df >>

\* main of the iOS report
NextIos ==
    \/ RunIosKtx2Png
    \/ ParseKnowledgeC
    \/ ParseAppState
    \/ BuildHtmlByApp

\* Largest number of rows of a table of an iOS report run.
MaxIos == 2

AppUsageStream == << "/" >> \o AppUsage

\* Objects of KnowledgeC: app/usage events with a bundle id, with a value
\* string only, with neither, and an event of another stream.
IosKcValues ==
    << KcObject(1, AppUsageStream, BundleA, NULL, MacTime(725727570, 0), MacTime(725727610, 0)),
       KcObject(2, AppUsageStream, NULL, BundleB, MacTime(725727580, 0), MacTime(725727590, 0)),
       KcObject(3, AppUsageStream, NULL, NULL, MacTime(725727600, 0), MacTime(725727601, 0)),
       KcObject(4, << "/", "a", "p", "p", "/", "i", "n", "F", "o", "c", "u", "s" >>,
                BundleB, NULL, MacTime(725727570, 0), NullValue) >>

\* Manifest blobs: one with a snapshot in "{DEFAULT GROUP}" and one in group
\* g, one whose group is "s {default group}", and one that is no plist.
IosManifestValues ==
    << ManifestRow(BundleA, Manifest(<< SnapGroup(DefaultGroup, << Snap(NsTime(725850300, 250), KtxA) >>),
                                        SnapGroup(<< "g" >>, << Snap(NsTime(725850360, 0), KtxA) >>) >>)),
       ManifestRow(BundleB, Manifest(<< SnapGroup(<< "s", " " >> \o Lower(DefaultGroup),
                                                  << Snap(NsTime(725850300, 250), KtxA) >>) >>)),
       ManifestRow(BundleA, BrokenBlob) >>

\* .ktx files: one in a group folder of com.a, one in a folder below
\* "{DEFAULT GROUP}", one in "{DEFAULT GROUP}" of com.b, and one of com.b
\* that the converter rejects.
IosKtxValues ==
    { KtxFile(<< BundleA, << "g" >>, KtxA >>, TRUE),
      KtxFile(<< BundleA, DefaultGroup, << "s" >>, KtxA >>, TRUE),
      KtxFile(<< BundleB, DefaultGroup, KtxA >>, TRUE),
      KtxFile(<< BundleB, << "g" >>, KtxA >>, FALSE) }

\* Runs of the iOS report over every folder of these files and tables.
InitIos ==
    /\ rct_db = AbsentDb
    /\ usg_db = AbsentDb
    /\ snap_dir = AbsentDir
    /\ ReportAtEntry
    /\ NoDecoderRun
    /\ ios_dir \in [exe : BOOLEAN, ktx : SUBSET IosKtxValues,
                    kc : TablesOver(IosKcValues, MaxIos) \cup {AbsentDb},
                    appstate : TablesOver(IosManifestValues, MaxIos) \cup {AbsentDb}]
    /\ ios_pc = "ktx"
    /\ png_files = << >>
    /\ kc_df = << >>
    /\ app_df = << >>
    /\ ios_sections = << >>

SpecIos == InitIos /\ [][NextIos]_vars

\* ---------------------------------------------------------------- claims

\* Minute key of a UsageStats record / of a RecentTasks record.
UsgKey(row) == MinuteKeyFromUsg(row.last_time_kst)

RctKey(row) == MinuteKeyFromRctUtcToKst(row.last_time_moved_utc)

\* The non-empty minute keys of the subject's records of each source, taken
\* from the frames the readers returned.
UsgKeysOf(pkg) ==
    { UsgKey(df_usg[i]) : i \in { j \in 1..Len(df_usg) : Pkg2(df_usg[j].package) = pkg } }
    \ { << >> }

RctKeysOf(pkg) ==
    { RctKey(df_rct[i]) : i \in { j \in 1..Len(df_rct) : Pkg2(df_rct[j].package) = pkg } }
    \ { << >> }

\* The greatest key of a set of keys, by pairwise comparison; "" when empty.
LatestOf(K) == IF K = {} THEN << >> ELSE CHOOSE m \in K : \A x \in K : ~StrLess(m, x)

CountRows(df, pkg) == Cardinality({ i \in 1..Len(df) : Pkg2(df[i].package) = pkg })

Flagged(table, cls) == { i \in 1..Len(table) : table[i].cls = cls }

K1005 == << "2", "0", "2", "4", "-", "0", "1", "-", "0", "1", " ", "1", "0", ":", "0", "5" >>

K1009 == << "2", "0", "2", "4", "-", "0", "1", "-", "0", "1", " ", "1", "0", ":", "0", "9" >>

K1012 == << "2", "0", "2", "4", "-", "0", "1", "-", "0", "1", " ", "1", "0", ":", "1", "2" >>

\* C1: in every section, every record of the subject of either source is
\* listed, and it is flagged matched (blue) exactly when its minute key is a
\* key of a record of the subject in source A and of one in source B.
C1_MatchedIffInIntersection ==
    \A n \in 1..Len(sections) :
        LET sec == sections[n]
            both == UsgKeysOf(sec.pkg) \cap RctKeysOf(sec.pkg)
        IN  /\ Len(sec.usg) = CountRows(df_usg, sec.pkg)
            /\ Len(sec.rct) = CountRows(df_rct, sec.pkg)
            /\ \A i \in 1..Len(sec.usg) :
                  (sec.usg[i].cls = "blue") <=> (UsgKey(sec.usg[i].row) \in both)
            /\ \A i \in 1..Len(sec.rct) :
                  (sec.rct[i].cls = "blue") <=> (RctKey(sec.rct[i].row) \in both)

\* A section with a matched and an unmatched record in each source.
C1_Witness ==
    \E n \in 1..Len(sections) :
        /\ Flagged(sections[n].usg, "blue") # {}
        /\ Flagged(sections[n].rct, "blue") # {}
        /\ Flagged(sections[n].usg, "blue") # 1..Len(sections[n].usg)
        /\ Flagged(sections[n].rct, "blue") # 1..Len(sections[n].rct)

\* Every timestamp text of the section's task records is NULL or ISO text.
AllTimestampsIso(sec) ==
    \A i \in 1..Len(sec.rct) :
        \/ IsNull(sec.rct[i].row.last_time_moved_utc)
        \/ FromIsoFormat(sec.rct[i].row.last_time_moved_utc).ok

MayMismatch(mk, own, other) ==
    /\ mk \notin (own \cap other)
    /\ LatestOf(own) # << >>
    /\ LatestOf(other) # << >>
    /\ LatestOf(own) # LatestOf(other)
    /\ mk = LatestOf(own)

\* C3: a record is flagged mismatched only if its key is not in the
\* intersection, both most-recent keys are non-empty and differ, and its key
\* is its own source's most-recent key; a record that is neither matched nor
\* in that case carries no flag.
C3_MismatchedOnlyIf ==
    \A n \in 1..Len(sections) :
        LET sec == sections[n]
            A == UsgKeysOf(sec.pkg)
            B == RctKeysOf(sec.pkg)
        IN  /\ \A i \in 1..Len(sec.usg) :
                  /\ sec.usg[i].cls = "red" => MayMismatch(UsgKey(sec.usg[i].row), A, B)
                  /\ (sec.usg[i].cls # "blue" /\ ~MayMismatch(UsgKey(sec.usg[i].row), A, B))
                        => sec.usg[i].cls = ""
            /\ \A i \in 1..Len(sec.rct) :
                  /\ sec.rct[i].cls = "red" => MayMismatch(RctKey(sec.rct[i].row), B, A)
                  /\ (sec.rct[i].cls # "blue" /\ ~MayMismatch(RctKey(sec.rct[i].row), B, A))
                        => sec.rct[i].cls = ""

\* A section with a mismatched record and an unflagged record in each source.
C3_Witness ==
    \E n \in 1..Len(sections) :
        /\ Flagged(sections[n].usg, "red") # {}
        /\ Flagged(sections[n].usg, "") # {}
        /\ Flagged(sections[n].rct, "red") # {}
        /\ Flagged(sections[n].rct, "") # {}

\* The sections of Scenario 1: source A has the minute keys 10:05 and 10:09,
\* source B has 10:05 and 10:12.
Scenario1(sec) ==
    /\ UsgKeysOf(sec.pkg) = {K1005, K1009}
    /\ RctKeysOf(sec.pkg) = {K1005, K1012}

\* C4: in Scenario 1 the intersection is exactly {10:05}, the A records at
\* 10:09 and the B records at 10:12 are flagged mismatched, and the records
\* at 10:05 of both sources are flagged matched.
C4_Scenario1 ==
    \A n \in 1..Len(sections) :
        LET sec == sections[n]
        IN  Scenario1(sec) =>
              /\ sec.intersect_minutes = {K1005}
              /\ \A i \in 1..Len(sec.usg) :
                    /\ UsgKey(sec.usg[i].row) = K1009 => sec.usg[i].cls = "red"
                    /\ UsgKey(sec.usg[i].row) = K1005 => sec.usg[i].cls = "blue"
              /\ \A i \in 1..Len(sec.rct) :
                    /\ RctKey(sec.rct[i].row) = K1012 => sec.rct[i].cls = "red"
                    /\ RctKey(sec.rct[i].row) = K1005 => sec.rct[i].cls = "blue"

\* The section of Scenario 1 has been built.
C4_Witness ==
    \E n \in 1..Len(sections) :
        /\ Scenario1(sections[n])
        /\ Len(sections[n].usg) = 2
        /\ Len(sections[n].rct) = 2

\* C5: when one source has no minute key for a subject (no record, or only
\* records with the empty key), no record of the subject is flagged, in
\* either source.
C5_EmptySourceNoFlags ==
    \A n \in 1..Len(sections) :
        LET sec == sections[n]
        IN  (UsgKeysOf(sec.pkg) = {} \/ RctKeysOf(sec.pkg) = {}) =>
              /\ \A i \in 1..Len(sec.usg) : sec.usg[i].cls = ""
              /\ \A i \in 1..Len(sec.rct) : sec.rct[i].cls = ""

\* A section whose source B has records but no minute key, while source A
\* has two minute keys.
C5_Witness ==
    \E n \in 1..Len(sections) :
        /\ Len(sections[n].rct) >= 1
        /\ RctKeysOf(sections[n].pkg) = {}
        /\ Cardinality(UsgKeysOf(sections[n].pkg)) = 2

\* A timestamp text that datetime.fromisoformat rejects, as written and with
\* blanks replaced by "T".
Unparsable(s) ==
    /\ ~IsNull(s)
    /\ s # << >>
    /\ ~FromIsoFormat(s).ok
    /\ ~FromIsoFormat(ReplaceChar(s, " ", "T")).ok

\* C6: a record whose timestamp text cannot be parsed is listed in its
\* table, has the empty minute key, carries no flag, and contributes no key
\* to its subject's bucket set: every key of the set is the key of a record
\* whose text parses.
C6_UnparsableTimestampExcluded ==
    \A n \in 1..Len(sections) :
        LET sec == sections[n]
        IN  /\ Len(sec.rct) = CountRows(df_rct, sec.pkg)
            /\ \A i \in 1..Len(sec.rct) :
                  Unparsable(sec.rct[i].row.last_time_moved_utc) =>
                      /\ RctKey(sec.rct[i].row) = << >>
                      /\ sec.rct[i].cls = ""
            /\ sec.most_recent_rct_min \in
                  { RctKey(sec.rct[i].row) :
                      i \in { j \in 1..Len(sec.rct) :
                                ~Unparsable(sec.rct[j].row.last_time_moved_utc) } }
                  \cup { << >> }

\* C7: the intersection of a section is that of the subject's own two key
\* sets, and a record is flagged matched only if its key is a key of the
\* same subject in the other source, whatever keys other subjects have.
C7_IntersectionPerSubject ==
    \A n \in 1..Len(sections) :
        LET sec == sections[n]
        IN  /\ sec.intersect_minutes = UsgKeysOf(sec.pkg) \cap RctKeysOf(sec.pkg)
            /\ \A i \in Flagged(sec.usg, "blue") : UsgKey(sec.usg[i].row) \in RctKeysOf(sec.pkg)
            /\ \A i \in Flagged(sec.rct, "blue") : RctKey(sec.rct[i].row) \in UsgKeysOf(sec.pkg)

\* Two sections: the subject processed first has a key in source B that the
\* subject processed second has in source A only, and neither has it matched.
C7_Witness ==
    /\ Len(sections) = 2
    /\ \E mk \in RctKeysOf(sections[1].pkg) \cap UsgKeysOf(sections[2].pkg) :
          /\ mk \notin UsgKeysOf(sections[1].pkg)
          /\ mk \notin RctKeysOf(sections[2].pkg)
          /\ mk \notin sections[1].intersect_minutes
          /\ mk \notin sections[2].intersect_minutes
          /\ \E i \in 1..Len(sections[2].usg) :
                UsgKey(sections[2].usg[i].row) = mk /\ sections[2].usg[i].cls # "blue"

\* Some key of the index ends with the candidate, lower-cased (an exact match
\* is the case where the key is the candidate).
Matches(index, candidate) ==
    \E i \in 1..Len(index) : EndsWith(index[i].key, Lower(candidate))

\* C8: the display-image search of a task record resolves exactly when some
\* candidate matches; it resolves through the first candidate, in generation
\* order (stored name first), that matches exactly or by suffix; for that
\* candidate the exact match is taken when there is one, whatever later
\* candidates match, and otherwise a key that ends with the candidate.
C8_FirstMatchingCandidateWins ==
    \A n \in 1..Len(sections) : \A i \in 1..Len(sections[n].rct) :
        LET row   == sections[n].rct[i].row
            res   == sections[n].resolved[i]
            cands == DisplayCandidates(row)
            hits  == { c \in 1..Len(cands) : Matches(snap_index, cands[c]) }
        IN  /\ (~IsNull(row.snapshot_file) /\ Strip(row.snapshot_file) # << >>)
                  => cands[1] = Strip(row.snapshot_file)
            /\ res.found <=> hits # {}
            /\ res.found =>
                  /\ res.cand \in hits
                  /\ \A c \in hits : res.cand <= c
                  /\ IF \E e \in 1..Len(snap_index) : snap_index[e].key = Lower(cands[res.cand])
                     THEN /\ res.via = "exact"
                          /\ \E e \in 1..Len(snap_index) :
                                /\ snap_index[e].key = Lower(cands[res.cand])
                                /\ snap_index[e].path = res.path
                     ELSE /\ res.via = "suffix"
                          /\ \E e \in 1..Len(snap_index) :
                                /\ EndsWith(snap_index[e].key, Lower(cands[res.cand]))
                                /\ snap_index[e].path = res.path

\* A record resolved by a suffix match of its stored name while a later
\* candidate has an exact match in the index.
C8_Witness ==
    \E n \in 1..Len(sections) : \E i \in 1..Len(sections[n].rct) :
        LET res   == sections[n].resolved[i]
            cands == DisplayCandidates(sections[n].rct[i].row)
        IN  /\ res.found
            /\ res.via = "suffix"
            /\ res.cand = 1
            /\ \E c \in 2..Len(cands) : Lower(cands[c]) \in DictKeys(snap_index)

\* C9: a task record without stored artifact name and without a digit in its
\* task id resolves to no artifact, in the display-image search and in the
\* coverage score, whatever the index holds.
C9_NoNameNoDigitNoArtifact ==
    \A n \in 1..Len(sections) : \A i \in 1..Len(sections[n].rct) :
        LET row == sections[n].rct[i].row
        IN  (IsNull(row.snapshot_file) /\ DigitsOf(OrEmpty(row.task_id)) = << >>) =>
              /\ ~sections[n].resolved[i].found
              /\ ~ScoreRowFound(row, snap_index)

\* The record of Scenario 3 (task id "42", no stored name) against an index
\* that holds the key "42_reduced.png" and no key that an earlier candidate
\* matches.
Scenario3(row) ==
    /\ row.task_id = << "4", "2" >>
    /\ IsNull(row.snapshot_file)
    /\ Name42Reduced \in DictKeys(snap_index)
    /\ \A c \in 1..Len(DisplayCandidates(row)) :
          (\A d \in 1..c : DisplayCandidates(row)[d] # Name42Reduced)
              => ~Matches(snap_index, DisplayCandidates(row)[c])

\* C10 as stated: in Scenario 3 the record resolves through the candidate
\* "42_reduced.png" by the suffix rule, to a path that ends with that name.
C10_Scenario3BySuffix ==
    \A n \in 1..Len(sections) : \A i \in 1..Len(sections[n].rct) :
        LET res == sections[n].resolved[i]
        IN  Scenario3(sections[n].rct[i].row) =>
              /\ res.found
              /\ DisplayCandidates(sections[n].rct[i].row)[res.cand] = Name42Reduced
              /\ res.via = "suffix"
              /\ EndsWith(Lower(res.path.name), Name42Reduced)

\* C10 amended: in Scenario 3 the record resolves through the candidate
\* "42_reduced.png" by the exact-match rule, to the file indexed under that
\* key, whose name ends with "42_reduced.png" up to letter case.
C10_Scenario3ByExact ==
    \A n \in 1..Len(sections) : \A i \in 1..Len(sections[n].rct) :
        LET res == sections[n].resolved[i]
        IN  Scenario3(sections[n].rct[i].row) =>
              /\ res.found
              /\ DisplayCandidates(sections[n].rct[i].row)[res.cand] = Name42Reduced
              /\ res.via = "exact"
              /\ EndsWith(Lower(res.path.name), Name42Reduced)
              /\ \E e \in 1..Len(snap_index) :
                    snap_index[e].key = Name42Reduced /\ snap_index[e].path = res.path

\* The record of Scenario 3 has been resolved.
C10_Witness ==
    \E n \in 1..Len(sections) : \E i \in 1..Len(sections[n].rct) :
        /\ Scenario3(sections[n].rct[i].row)
        /\ sections[n].resolved[i].found

\* Two task records carry the same (stored name, sequence id) pair.
SamePair(a, b) == a.snapshot_file = b.snapshot_file /\ a.task_id = b.task_id

\* The index is only read once it is built: no step of the ranking, of the
\* section loop or of the write changes it.
C11_IndexReadOnly == [][(pc \in {"indexed", "loop"}) => (snap_index' = snap_index)]_vars

\* Within the display-image pass, records with the same pair resolve alike,
\* in whatever section and at whatever position they are resolved.
C11_DisplayPassRepeats ==
    \A m, n \in 1..Len(sections) :
        \A i \in 1..Len(sections[m].rct) : \A j \in 1..Len(sections[n].rct) :
            SamePair(sections[m].rct[i].row, sections[n].rct[j].row)
                => sections[m].resolved[i] = sections[n].resolved[j]

\* The two resolutions of one record, the one of the coverage score and the
\* one of the display-image pass, agree on whether an artifact is found.
C11_PassesAgree ==
    \A n \in 1..Len(sections) : \A i \in 1..Len(sections[n].rct) :
        sections[n].resolved[i].found = ScoreRowFound(sections[n].rct[i].row, snap_index)

\* C11: against the index once built, every resolution of the same (stored
\* name, sequence id) pair yields the same path or the same absence of a
\* path: the resolutions of equal pairs in the display-image pass, at any
\* position, and the resolution of the record in the coverage score.
C11_SameResolutionEveryTime == C11_DisplayPassRepeats /\ C11_PassesAgree

\* The coverage score of a subject, counted on the frame the reader returned.
CoverageScore(pkg) ==
    Cardinality({ i \in 1..Len(df_rct) :
                    Pkg2(df_rct[i].package) = pkg /\ ScoreRowFound(df_rct[i], snap_index) })

\* C12: the sections are emitted by descending coverage score and, among
\* subjects of equal score, by ascending subject id: of two sections, the
\* earlier one has the greater score, or the same score and the smaller id.
C12_RankedByScoreThenId ==
    \A i, j \in 1..Len(sections) :
        i < j => \/ CoverageScore(sections[i].pkg) > CoverageScore(sections[j].pkg)
                 \/ /\ CoverageScore(sections[i].pkg) = CoverageScore(sections[j].pkg)
                    /\ StrLess(sections[i].pkg, sections[j].pkg)

\* Scenario 4: the section of a subject with 2 resolved artifacts precedes
\* the section of a subject with none whose id is the smaller one.
C12_Witness ==
    /\ Len(sections) = 2
    /\ CoverageScore(sections[1].pkg) = 2
    /\ CoverageScore(sections[2].pkg) = 0
    /\ StrLess(sections[2].pkg, sections[1].pkg)

\* The candidate names of a task record, as a set: the stored name, trimmed
\* and lower-cased, when there is one, and the digits of the sequence id with
\* each extension, plain and "_reduced".
CandidateNames(r) ==
    LET name   == Lower(Strip(OrEmpty(r.snapshot_file)))
        digits == DigitsOf(OrEmpty(r.task_id))
    IN  (IF name # << >> THEN { name } ELSE {})
        \cup (IF digits # << >>
              THEN { digits \o Exts[e] : e \in 1..Len(Exts) }
                   \cup { digits \o Reduced \o Exts[e] : e \in 1..Len(Exts) }
              ELSE {})

\* The record resolves: some key of the index is, or ends with, a candidate.
Resolves(r, index) == \E c \in CandidateNames(r) : Matches(index, c)

\* The positions in the task frame of the records of a subject.
RecordsOf(df, pkg) == { i \in 1..Len(df) : Pkg2(df[i].package) = pkg }

\* C13: the coverage score that ranks a subject is the number of its records
\* that resolve, every record counted on its own (records that resolve to
\* the same file count once each); it grows by exactly one with a further
\* resolving record of the subject, stays as it is with a further record
\* that does not resolve, and does not decrease when a file is added to
\* the index.
C13_ScoreCountsResolvingRecords ==
    pc \in {"loop", "done"} =>
        \A pkg \in PkgsAll(df_rct, df_usg) :
            /\ SnapshotScoreForPkg(df_rct, snap_index, pkg)
                 = Cardinality({ i \in RecordsOf(df_rct, pkg) : Resolves(df_rct[i], snap_index) })
            /\ \A v \in 1..Len(ArtRctValues) :
                  Pkg2(WithPackage(ArtRctValues[v]).package) = pkg =>
                      SnapshotScoreForPkg(Append(df_rct, WithPackage(ArtRctValues[v])),
                                          snap_index, pkg)
                        = SnapshotScoreForPkg(df_rct, snap_index, pkg)
                          + (IF Resolves(ArtRctValues[v], snap_index) THEN 1 ELSE 0)
            /\ \A f \in ArtFileValues :
                  SnapshotScoreForPkg(df_rct, IndexFiles(snap_index, << f >>), pkg)
                    >= SnapshotScoreForPkg(df_rct, snap_index, pkg)

\* A ranked subject with two records that resolve to the same file, and the
\* score 2.
C13_Witness ==
    /\ pc \in {"loop", "done"}
    /\ \E n \in 1..Len(sections) :
          /\ Len(sections[n].rct) = 2
          /\ sections[n].resolved[1].found
          /\ sections[n].resolved[2].found
          /\ sections[n].resolved[1].path = sections[n].resolved[2].path
          /\ SnapshotScoreForPkg(df_rct, snap_index, sections[n].pkg) = 2

\* The subjects that have a record: those of the rows of recent_tasks and of
\* the selected rows of data, when the database is present.
SubjectsWithRecords ==
    { Pkg2(ExtractPackage(rct_db.rows[i].real_activity)) : i \in 1..Len(rct_db.rows) }
    \cup { Pkg2(usg_db.rows[i].package) :
             i \in { j \in 1..Len(usg_db.rows) : UsgSelected(usg_db.rows[j]) } }

\* C14: the written report has one section for each subject that has a
\* record in a source, and no other section: no subject appears twice, every
\* section lists at least one record, and the "no data" branch is not taken.
C14_EverySubjectOnce ==
    /\ \A n \in 1..Len(sections) :
          /\ ~sections[n].nodata
          /\ Len(sections[n].rct) + Len(sections[n].usg) >= 1
          /\ sections[n].pkg \in SubjectsWithRecords
    /\ \A m, n \in 1..Len(sections) : m # n => sections[m].pkg # sections[n].pkg
    /\ pc = "done" => { sections[n].pkg : n \in 1..Len(sections) } = SubjectsWithRecords

\* A written report with the section of a subject none of whose records has
\* a minute key.
C14_Witness ==
    /\ pc = "done"
    /\ \E n \in 1..Len(sections) :
          /\ Len(sections[n].rct) + Len(sections[n].usg) >= 1
          /\ \A i \in 1..Len(sections[n].rct) : RctKey(sections[n].rct[i].row) = << >>
          /\ \A i \in 1..Len(sections[n].usg) : UsgKey(sections[n].usg[i].row) = << >>

\* C15: every record whose subject its decoder could not resolve is listed
\* in the section of the sentinel subject "android": the task records
\* without real_activity (NULL, or the placeholder "N/A" the decoder stores)
\* and the usage events without package (NULL, or the empty text the decoder
\* stores).
C15_UnresolvedUnderSentinel ==
    \A n \in 1..Len(sections) :
        /\ \A i \in 1..Len(sections[n].rct) :
              (\/ IsNull(sections[n].rct[i].row.real_activity)
               \/ sections[n].rct[i].row.real_activity = NotAvailable)
                  => sections[n].pkg = AndroidText
        /\ \A i \in 1..Len(sections[n].usg) :
              (\/ IsNull(sections[n].usg[i].row.package)
               \/ sections[n].usg[i].row.package = << >>)
                  => sections[n].pkg = AndroidText

\* The part of C15 that holds: the records whose subject is NULL in the
\* database are listed under "android".
C15_NullUnderSentinel ==
    \A n \in 1..Len(sections) :
        /\ \A i \in 1..Len(sections[n].rct) :
              IsNull(sections[n].rct[i].row.real_activity) => sections[n].pkg = AndroidText
        /\ \A i \in 1..Len(sections[n].usg) :
              IsNull(sections[n].usg[i].row.package) => sections[n].pkg = AndroidText

\* s[i..j] is a non-empty run of identifier characters that cannot be
\* extended to the right.
IdentRun(s, i, j) ==
    /\ 1 <= i /\ i <= j /\ j <= Len(s)
    /\ \A c \in i..j : IsIdent(s[c])
    /\ (j < Len(s) => ~IsIdent(s[j + 1]))

\* The pairs << i, j >> that each rule of _extract_package can match in s:
\* (a) an identifier between "{" and "/"; (b) a leading identifier followed
\* by "/" or a blank; (c) an identifier that is all of s; (d) an identifier
\* that starts anywhere, followed by a "." that belongs to the same run of
\* identifier characters.
Positions(s) == (1..Len(s)) \X (1..Len(s))

RuleA(s) ==
    { ij \in Positions(s) : /\ IdentRun(s, ij[1], ij[2])
                            /\ ij[1] > 1 /\ s[ij[1] - 1] = "{"
                            /\ ij[2] < Len(s) /\ s[ij[2] + 1] = "/" }

RuleB(s) ==
    { ij \in Positions(s) : /\ IdentRun(s, ij[1], ij[2])
                            /\ ij[1] = 1
                            /\ ij[2] < Len(s) /\ s[ij[2] + 1] \in {"/", " "} }

RuleC(s) == { ij \in Positions(s) : IdentRun(s, ij[1], ij[2]) /\ ij[1] = 1 /\ ij[2] = Len(s) }

RuleD(s) ==
    { ij \in Positions(s) : /\ \A c \in ij[1]..ij[2] : IsIdent(s[c])
                            /\ ij[1] <= ij[2]
                            /\ ij[2] < Len(s) /\ s[ij[2] + 1] = "." }

\* The match a regular-expression search reports among the pairs M: the one
\* that starts leftmost and, for that start, ends last (the group is greedy).
Leftmost(M) ==
    CHOOSE ij \in M : \A kl \in M : ij[1] < kl[1] \/ (ij[1] = kl[1] /\ ij[2] >= kl[2])

\* The same among the pairs M, but the one that ends first.
LeftmostShortest(M) ==
    CHOOSE ij \in M : \A kl \in M : ij[1] < kl[1] \/ (ij[1] = kl[1] /\ ij[2] <= kl[2])

Between(s, ij) == SubSeq(s, ij[1], ij[2])

\* The subject the four rules give for the trimmed descriptor s, in the
\* order (a), (b), (c), (d); NULL when no rule matches.
SubjectByRules(s) ==
    IF RuleA(s) # {} THEN Between(s, Leftmost(RuleA(s)))
    ELSE IF RuleB(s) # {} THEN Between(s, Leftmost(RuleB(s)))
    ELSE IF RuleC(s) # {} THEN s
    ELSE IF RuleD(s) # {} THEN Between(s, Leftmost(RuleD(s)))
    ELSE NULL

\* The same with rule (d) as stated in C16: the identifier before the first ".".
SubjectByRulesFirstDot(s) ==
    IF RuleA(s) # {} THEN Between(s, Leftmost(RuleA(s)))
    ELSE IF RuleB(s) # {} THEN Between(s, Leftmost(RuleB(s)))
    ELSE IF RuleC(s) # {} THEN s
    ELSE IF RuleD(s) # {} THEN Between(s, LeftmostShortest(RuleD(s)))
    ELSE NULL

Described(ra) == ~IsNull(ra) /\ ra # << >>

\* C16 as stated: the subject of every task record read is the one the rules
\* give in the order (a), (b), (c), (d), rule (d) taking the text before the
\* first "."; a record without descriptor, or whose descriptor matches no
\* rule, has no subject.
C16_PriorityFirstDot ==
    \A i \in 1..Len(df_rct) :
        df_rct[i].package = IF Described(df_rct[i].real_activity)
                            THEN SubjectByRulesFirstDot(Strip(df_rct[i].real_activity))
                            ELSE NULL

\* C16 amended: as above, rule (b) being a leading identifier followed by
\* "/" or by a blank, and rule (d) taking the leftmost identifier that a "."
\* follows within a run of identifier characters, up to the last "." of that
\* run.
C16_PriorityLastDot ==
    \A i \in 1..Len(df_rct) :
        df_rct[i].package = IF Described(df_rct[i].real_activity)
                            THEN SubjectByRules(Strip(df_rct[i].real_activity))
                            ELSE NULL

\* A task record read whose subject comes from rule (d), from a descriptor
\* with two "." in the run.
C16_Witness ==
    \E i \in 1..Len(df_rct) :
        /\ df_rct[i].real_activity = << "a", ".", "b", ".", "c", ":", "d" >>
        /\ df_rct[i].package = << "a", ".", "b" >>
        /\ RuleA(df_rct[i].real_activity) = {}
        /\ RuleB(df_rct[i].real_activity) = {}
        /\ RuleC(df_rct[i].real_activity) = {}

\* The index a traversal builds maps every lower-cased basename to the file
\* of that basename visited last.
LastVisitedKept(files, index) ==
    /\ DictKeys(index) = { Lower(files[i].name) : i \in 1..Len(files) }
    /\ \A e \in 1..Len(index) :
          \E i \in 1..Len(files) :
              /\ index[e].path = files[i]
              /\ Lower(files[i].name) = index[e].key
              /\ \A j \in (i + 1)..Len(files) : Lower(files[j].name) # index[e].key

\* C17: once index_snapshots has returned, the index is empty when the
\* directory is missing; otherwise every key is lower-case, occurs once and
\* is the lower-cased name of its value, every value is a file of the
\* directory, the lower-cased name of every file of the directory is a key,
\* and the index is the one of a traversal that keeps, for files of the same
\* lower-cased name, the one visited last, whatever the traversal order.
C17_IndexOfLowercaseBasenames ==
    pc \notin {"main", "rct_read", "usg_read"} =>
        IF ~snap_dir.exists THEN snap_index = << >>
        ELSE /\ \A e \in 1..Len(snap_index) :
                   /\ snap_index[e].key = Lower(snap_index[e].key)
                   /\ snap_index[e].key = Lower(snap_index[e].path.name)
                   /\ snap_index[e].path \in snap_dir.files
                   /\ \A d \in 1..Len(snap_index) :
                         snap_index[d].key = snap_index[e].key => d = e
             /\ \A f \in snap_dir.files : Lower(f.name) \in DictKeys(snap_index)
             /\ \A files \in Orders(snap_dir.files) :
                   LastVisitedKept(files, IndexFiles(<< >>, files))
             /\ \E files \in Orders(snap_dir.files) :
                   /\ LastVisitedKept(files, snap_index)
                   /\ snap_index = IndexFiles(<< >>, files)

\* The index of a directory with two files whose names differ in letter case
\* only: one key, and the file kept is the one in the second directory.
C17_Witness ==
    /\ pc \notin {"main", "rct_read", "usg_read"}
    /\ \E f, g \in snap_dir.files : f # g /\ Lower(f.name) = Lower(g.name)
    /\ Len(snap_index) = 1
    /\ snap_index[1].path.dir = DirE
    /\ snap_index[1].path.name # snap_index[1].key

\* Every row of a present database is listed in the section of its subject.
AllRecordsListed ==
    /\ \A k \in 1..Len(rct_db.rows) :
          \E n \in 1..Len(sections) : \E i \in 1..Len(sections[n].rct) :
              /\ sections[n].rct[i].row = WithPackage(rct_db.rows[k])
              /\ sections[n].pkg = Pkg2(ExtractPackage(rct_db.rows[k].real_activity))
    /\ \A k \in { j \in 1..Len(usg_db.rows) : UsgSelected(usg_db.rows[j]) } :
          \E n \in 1..Len(sections) : \E i \in 1..Len(sections[n].usg) :
              /\ sections[n].usg[i].row = UsgProject(usg_db.rows[k])
              /\ sections[n].pkg = Pkg2(usg_db.rows[k].package)

NoFlag(table) == \A i \in 1..Len(table) : table[i].cls = ""

\* Some file of the snapshot directory is on another drive than the report.
OtherDrive == \E f \in snap_dir.files : RelpathRaises(f)

\* The run has ended: build_html has returned or has raised.
Ended == pc \in {"done", "failed"}

\* The step at the current position of main has an outcome: the readers have
\* a frame to return, the traversal has an order, and the loop either has a
\* subject left or goes on to the write.
StepPossible ==
    /\ pc = "main" => (rct_db.exists => ReadRecentTasksRows(rct_db.rows) # {})
    /\ pc = "rct_read" => (usg_db.exists => ReadUsageStatsRows(usg_db.rows) # {})
    /\ pc = "usg_read" => (snap_dir.exists => Orders(snap_dir.files) # {})
    /\ pc = "loop" => (pos <= Len(pkgs) + 1)
    /\ pc \in {"main", "rct_read", "usg_read", "indexed", "loop", "done", "failed"}

\* C18: a missing RecentTasks database, UsageStats database or snapshot
\* directory is never fatal.  It is read as an empty frame or an empty index;
\* until the run has ended every step has an outcome; a run without task
\* database or without snapshot directory never ends in a failure (the only
\* failure is the one of a resolved file on another drive); and the written
\* report lists every record of the inputs that are present and flags no
\* record of a source when the other source is the missing one.
C18_MissingInputNotFatal ==
    /\ (pc # "main" /\ ~rct_db.exists) => df_rct = << >>
    /\ (pc \notin {"main", "rct_read"} /\ ~usg_db.exists) => df_usg = << >>
    /\ (pc \notin {"main", "rct_read", "usg_read"} /\ ~snap_dir.exists) => snap_index = << >>
    /\ ~Ended => StepPossible
    /\ pc = "failed" => (rct_db.exists /\ snap_dir.exists /\ OtherDrive)
    /\ pc = "done" =>
          /\ written
          /\ AllRecordsListed
          /\ ~rct_db.exists => \A n \in 1..Len(sections) : NoFlag(sections[n].usg)
          /\ ~usg_db.exists => \A n \in 1..Len(sections) : NoFlag(sections[n].rct)

\* A report written from the usage events alone: the task database and the
\* snapshot directory are missing, and the events of two minutes of a
\* subject are listed.
C18_Witness ==
    /\ pc = "done"
    /\ written
    /\ ~rct_db.exists
    /\ ~snap_dir.exists
    /\ usg_db.exists
    /\ \E n \in 1..Len(sections) :
          /\ Len(sections[n].usg) = 2
          /\ UsgKey(sections[n].usg[1].row) # UsgKey(sections[n].usg[2].row)

\* C19: a failure raised in the section of one subject does not end the
\* run: when the run has ended, the report is written and holds the section
\* of every ranked subject but one.
C19_SectionFailureIsolated ==
    Ended => (written /\ Len(sections) >= Len(pkgs) - 1)

\* The rows a decoder run has written.
WrittenRows == { dec_db[i] : i \in 1..Len(dec_db) }

\* The rows of the items that decode: a task file that parses, the
\* snapshots of a blob that decodes, the entries with an integer time of a
\* usage file that is read.
ItemRows(item) ==
    IF dec_prog = "recent_tasks"
    THEN (IF item.root.parses THEN { ParseRecentTask(item).row } ELSE {})
    ELSE IF dec_prog = "appstate"
    THEN (IF item.manifest.decodes
          THEN { SnapshotRow(item.bundle_id, ManifestSnaps(item.manifest.groups)[i]) :
                   i \in 1..Len(ManifestSnaps(item.manifest.groups)) }
          ELSE {})
    ELSE IF dec_prog = "usagestats"
    THEN (IF FileSkipped(item) THEN {}
          ELSE IF item.content.pb
          THEN { FileRows(item)[i] : i \in 1..Len(item.content.entries) }
          ELSE { EntryRow(EpochOfName(item.name), item.content.entries[i]) :
                   i \in { j \in 1..Len(item.content.entries) :
                             ~EntryRaises(item.content.entries[j]) } })
    ELSE { KcEvent(item) }

DecodableRows == UNION { ItemRows(dec_items[i]) : i \in 1..Len(dec_items) }

\* An item of the run fails to decode.
SomeItemFails ==
    \E i \in 1..Len(dec_items) :
        IF dec_prog = "recent_tasks" THEN ~dec_items[i].root.parses
        ELSE IF dec_prog = "appstate" THEN ~dec_items[i].manifest.decodes
        ELSE IF dec_prog = "usagestats"
        THEN FileSkipped(dec_items[i]) \/ FileRaises(dec_items[i])
        ELSE FALSE

\* C20, for the task decoder and the manifest decoder: a file or blob that
\* fails to decode is passed over, the run ends normally and has written the
\* rows of every other item.
C20_TaskAndBlobFailureIsolated ==
    dec_prog \in { "recent_tasks", "appstate" } =>
        /\ dec_state # "crashed"
        /\ dec_state = "done" => WrittenRows = DecodableRows

\* The task decoder or the manifest decoder has ended a run in which an item
\* failed to decode and another was written.
C20_TaskAndBlobWitness ==
    /\ dec_prog \in { "recent_tasks", "appstate" }
    /\ dec_state = "done"
    /\ SomeItemFails
    /\ dec_db # << >>

\* C20: in every collaborator decoder a decode failure is isolated to the
\* failing item: no run of a decoder ends on an exception, and a run that has
\* ended has written the rows of every item and entry that decodes.
C20_DecodeFailureIsolated ==
    /\ dec_state # "crashed"
    /\ dec_state = "done" => WrittenRows = DecodableRows

\* "YYYY-MM-DD HH:MM" of the civil time in UTC+9 of the instant t.
KstMinuteOf(t) ==
    FormatMinute((t.sec + 9 * 3600) \div 86400, ((t.sec + 9 * 3600) % 86400) \div 60)

\* The instants at which both sources hold a record.
SharedInstants ==
    { usg_db.rows[i].lastime : i \in 1..Len(usg_db.rows) }
    \cap { rct_db.rows[i].last_time_moved : i \in 1..Len(rct_db.rows) }

SecondsOfText(s) ==
    (DaysFromCivil(ParseNat(SubSeq(s, 1, 4)), ParseNat(SubSeq(s, 6, 7)),
                   ParseNat(SubSeq(s, 9, 10))) - DaysFromCivil(2001, 1, 1)) * 86400
    + ParseNat(SubSeq(s, 12, 13)) * 3600 + ParseNat(SubSeq(s, 15, 16)) * 60
    + ParseNat(SubSeq(s, 18, 19))

\* The events written by the KnowledgeC decoder whose start and end are
\* recorded.
TimedEvents ==
    { i \in 1..Len(dec_db) : dec_db[i].start_mac.t = "int" /\ dec_db[i].end_mac.t = "int" }

\* C22: a timestamp recorded as s whole seconds from 2001-01-01 00:00:00 UTC
\* is decoded as that epoch + s in UTC and as that instant + 9 hours in
\* local time: every snapshot's Creation Date is epoch + s + 9h, and every
\* KnowledgeC event has its UTC texts at start_mac and end_mac, its local
\* texts 9 hours later and duration_sec = end_mac - start_mac.
C22_ReferenceEpochPlusNineHours ==
    /\ dec_prog = "appstate" =>
          \A i \in 1..Len(dec_items) : dec_items[i].manifest.decodes =>
              \A g \in 1..Len(dec_items[i].manifest.groups) :
                  \A k \in 1..Len(dec_items[i].manifest.groups[g].snaps) :
                      LET cd == dec_items[i].manifest.groups[g].snaps[k].creationDate
                      IN  cd.t = "real" =>
                              \A n \in 1..Len(dec_rows) :
                                  (/\ dec_rows[n].bundle_id = dec_items[i].bundle_id
                                   /\ dec_rows[n].snapshot_index = k - 1
                                   /\ dec_rows[n].snapshot_group
                                          = dec_items[i].manifest.groups[g].name)
                                  => SecondsOfText(dec_rows[n].creation_date)
                                         = cd.sec + 9 * 3600
    /\ dec_prog = "knowledgec" =>
          \A i \in TimedEvents :
              /\ SecondsOfText(dec_db[i].start_utc_iso) = dec_db[i].start_mac.sec
              /\ SecondsOfText(dec_db[i].end_utc_iso) = dec_db[i].end_mac.sec
              /\ SecondsOfText(dec_db[i].start_kst_iso)
                     - SecondsOfText(dec_db[i].start_utc_iso) = 9 * 3600
              /\ SecondsOfText(dec_db[i].end_kst_iso)
                     - SecondsOfText(dec_db[i].end_utc_iso) = 9 * 3600
              /\ dec_db[i].duration_sec.ms = 0
              /\ dec_db[i].duration_sec.sec = dec_db[i].end_mac.sec - dec_db[i].start_mac.sec

\* The KnowledgeC decoder has written an event of 40 seconds that starts on
\* 2023-12-31 and ends on 2024-01-01 in UTC+9.
C22_Witness ==
    /\ dec_prog = "knowledgec"
    /\ \E i \in TimedEvents :
          /\ dec_db[i].start_mac.sec = 725727570
          /\ dec_db[i].duration_sec.sec = 40

\* The rows of a table in every order.
RowOrders(rows) == Arrangements(rows, {})

\* The rows of a section's table with their flags.
Entries(table) == { table[i] : i \in 1..Len(table) }

\* The section of subject pkg computed from the frames dr and du agrees with
\* the section sec in the intersection, the most-recent minutes and the flag
\* of every record.
SameCorrelation(sec, sr, su) ==
    /\ UsgMinSet(su) = UsgMinSet(SubsetOf(df_usg, sec.pkg))
    /\ RctMinSet(sr) = RctMinSet(SubsetOf(df_rct, sec.pkg))
    /\ UsgMinSet(su) \cap RctMinSet(sr) = sec.intersect_minutes
    /\ MostRecent(UsgMinSet(su)) = sec.most_recent_usg_min
    /\ MostRecent(RctMinSet(sr)) = sec.most_recent_rct_min
    /\ Entries(SectionOf(sec.pkg, sr, su, UsgMinSet(su), RctMinSet(sr), << >>).usg)
           = Entries(sec.usg)
    /\ Entries(SectionOf(sec.pkg, sr, su, UsgMinSet(su), RctMinSet(sr), << >>).rct)
           = Entries(sec.rct)

\* C23: the correlation result does not depend on the order of the input
\* records: for every order of the rows of either table, and every order in
\* which the readers may then return them, the subjects are ranked as in
\* this run and every section has the same bucket sets, intersection,
\* most-recent minutes and flags.
C23_OrderIndependent ==
    pc \in { "loop", "done" } =>
        \A pr \in RowOrders(rct_db.rows), pu \in RowOrders(usg_db.rows) :
            \A dr \in ReadRecentTasksRows(pr), du \in ReadUsageStatsRows(pu) :
                /\ RankedPkgs(dr, du, snap_index) = pkgs
                /\ \A n \in 1..Len(sections) :
                      SameCorrelation(sections[n], SubsetOf(dr, sections[n].pkg),
                                      SubsetOf(du, sections[n].pkg))

\* A finished run over two task records of different subjects at one
\* instant, stored with the later-ranked subject first, and two usage events.
C23_Witness ==
    /\ pc = "done"
    /\ Len(rct_db.rows) = 2
    /\ Len(usg_db.rows) = 2
    /\ usg_db.rows[1] # usg_db.rows[2]
    /\ Len(pkgs) = 2
    /\ rct_db.rows[1].last_time_moved = rct_db.rows[2].last_time_moved
    /\ ExtractPackage(rct_db.rows[1].real_activity) = pkgs[2]
    /\ ExtractPackage(rct_db.rows[2].real_activity) = pkgs[1]

\* The last invocation of the decoder has ended.
InvocationEnded == dec_state \in { "done", "crashed", "rejected" }

\* C24: no state survives between runs: after any sequence of invocations
\* of a decoder its output database holds only rows derived from the inputs
\* of the last invocation, and all of them when that invocation completed.
C24_NoRowSurvivesRuns ==
    InvocationEnded =>
        /\ WrittenRows \subseteq DecodableRows
        /\ dec_state = "done" => WrittenRows = DecodableRows

\* C24, for the invocations that find their input: the output database of
\* an invocation that has started holds only rows derived from its inputs.
C24_RebuiltWhenInputFound ==
    dec_state \in { "running", "done", "crashed" } /\ dec_prog # "knowledgec" =>
        WrittenRows \subseteq DecodableRows


\* The values of EventType that name an activity resumed, paused or stopped.
ActivityTypes == { 1, 2, 23 }

\* An entry of a usage file is an event-log entry of one of these types: in
\* XML the type attribute holds the number, in protobuf the type field does.
IsActivityEntry(f, e) ==
    IF f.content.xml
    THEN e.tag = "event-log" /\ e.type \in { ToString(c) : c \in ActivityTypes }
    ELSE e.has_type /\ e.type \in ActivityTypes

\* The files of the run that were read.
FilesRead == { dec_items[i] : i \in { j \in 1..Len(dec_items) : ~FileSkipped(dec_items[j]) } }

\* C25: every usage event-log entry of type activity resumed, paused or
\* stopped is included in the report's source-A records, whichever format it
\* was decoded from: when the usage decoder has ended, the row of every such
\* entry of a file it read is in the database and is selected by
\* read_usagestats.
C25_ActivityEventsSelected ==
    dec_prog = "usagestats" /\ dec_state = "done" =>
        \A f \in FilesRead : \A k \in 1..Len(f.content.entries) :
            IsActivityEntry(f, f.content.entries[k]) =>
                /\ FileRows(f)[k] \in WrittenRows
                /\ UsgSelected(FileRows(f)[k])

\* C25, for the protobuf formats and for the entries of other types: the row
\* of an activity event of a protobuf file is selected by read_usagestats,
\* and every row that is selected is the row of an activity entry.
C25_ProtobufEventsSelected ==
    dec_prog = "usagestats" /\ dec_state = "done" =>
        /\ \A f \in FilesRead : \A k \in 1..Len(f.content.entries) :
              f.content.pb /\ IsActivityEntry(f, f.content.entries[k]) =>
                  /\ FileRows(f)[k] \in WrittenRows
                  /\ UsgSelected(FileRows(f)[k])
        /\ \A r \in WrittenRows : UsgSelected(r) =>
              \E f \in FilesRead : \E k \in 1..Len(f.content.entries) :
                  /\ IsActivityEntry(f, f.content.entries[k])
                  /\ FileRows(f)[k] = r


\* A row of a section's usage table stems from an event without time_ms, a
\* row of its task table from the task file without last_time_moved.
UndatedUsg(row) == row.last_time_kst = SqlDatetimeKst(EmptyTextValue)

UndatedRct(row) == row.task_id = SplitExtRoot(UndatedTaskFile.name)

\* C26: through the whole pipeline a record whose source carried no
\* timestamp ends with an empty minute key, is in no bucket set and is never
\* flagged matched or mismatched.
C26_UndatedNeverFlagged ==
    \A n \in 1..Len(sections) :
        /\ \A i \in 1..Len(sections[n].usg) :
              UndatedUsg(sections[n].usg[i].row) =>
                  /\ UsgKey(sections[n].usg[i].row) = << >>
                  /\ sections[n].usg[i].cls = ""
        /\ \A i \in 1..Len(sections[n].rct) :
              UndatedRct(sections[n].rct[i].row) =>
                  /\ RctKey(sections[n].rct[i].row) = << >>
                  /\ sections[n].rct[i].cls = ""




\* The identifiers present in the data of an iOS report run: the bundle ids
\* and value strings of the events and the bundle ids of the manifest rows.
DataIdentifiers ==
    ({ Strip(ios_dir.kc.rows[i].bundle_id) : i \in 1..Len(ios_dir.kc.rows) }
     \cup { Strip(ios_dir.kc.rows[i].valuestring) : i \in 1..Len(ios_dir.kc.rows) }
     \cup { Strip(ios_dir.appstate.rows[i].bundle_id) : i \in 1..Len(ios_dir.appstate.rows) })
    \ { NULL, << >> }

\* C27: in the iOS report an app/usage event with neither bundle id nor value
\* string is in no section, and the subject id of every section is a
\* non-empty identifier present in the data.
C27_NoSectionForMissingSubject ==
    \A n \in 1..Len(ios_sections) :
        /\ ios_sections[n].bundle \in DataIdentifiers
        /\ \A i \in 1..Len(ios_sections[n].kc) :
              ~(IsNull(ios_sections[n].kc[i].event.bundle_id)
                /\ IsNull(ios_sections[n].kc[i].event.valuestring))

\* The paths in a list of converted files.
PngSet(pngs) == { pngs[i] : i \in 1..Len(pngs) }

\* C28: in the iOS report no snapshot of a "{DEFAULT GROUP}" folder or group
\* is used: no .ktx file whose parent path contains "{DEFAULT GROUP}" is among
\* the PNG files or the images of a section, and no manifest row whose
\* Snapshot Group contains "{DEFAULT GROUP}" is in the snapshot frame or in
\* the snapshot table of a section.
C28_NoDefaultGroupSnapshotUsed ==
    /\ \A k \in ios_dir.ktx :
          Contains(ParentText(k.parts), DefaultGroup) =>
              /\ PngPath(k.parts) \notin PngSet(png_files)
              /\ \A n \in 1..Len(ios_sections) :
                    PngPath(k.parts) \notin PngSet(ios_sections[n].pngs)
    /\ \A i \in 1..Len(app_df) : ~Contains(app_df[i].snapshot_group, DefaultGroup)
    /\ \A n \in 1..Len(ios_sections) :
          /\ PngSet(ios_sections[n].pngs) \subseteq PngSet(png_files)
          /\ \A i \in 1..Len(ios_sections[n].app) :
                ~Contains(ios_sections[n].app[i].snapshot_group, DefaultGroup)

\* The report is written for a folder with a convertible .ktx file below a
\* "{DEFAULT GROUP}" folder and a manifest with a "{DEFAULT GROUP}" group, and
\* a section shows a snapshot table and an image.
C28_Witness ==
    /\ ios_pc = "done"
    /\ \E k \in ios_dir.ktx : k.converts /\ Contains(ParentText(k.parts), DefaultGroup)
    /\ \E r \in PngSet(ExtractAllSnapshots(ios_dir.appstate.rows)) :
          Contains(r.snapshot_group, DefaultGroup)
    /\ \E n \in 1..Len(ios_sections) :
          ios_sections[n].app # << >> /\ ios_sections[n].pngs # << >>


\* The classes of the records of a section's two tables at the minute m.
UsgClassesAt(s, m) == { s.usg[i].cls : i \in { j \in 1..Len(s.usg) : UsgKey(s.usg[j].row) = m } }

RctClassesAt(s, m) == { s.rct[i].cls : i \in { j \in 1..Len(s.rct) : RctKey(s.rct[j].row) = m } }

SectionClasses(s) ==
    { s.usg[i].cls : i \in 1..Len(s.usg) } \cup { s.rct[i].cls : i \in 1..Len(s.rct) }

\* The flags of a source whose most recent minute `own` differs from the
\* other source's `other`: every record at the later minute is mismatched
\* and there is one; the records at the earlier minute are matched when that
\* minute is in the intersection.
LatestFlags(s, classesAtOwn, own, other) ==
    IF StrLess(other, own)
    THEN own \notin s.intersect_minutes /\ classesAtOwn = { "red" }
    ELSE own \in s.intersect_minutes => classesAtOwn = { "blue" }

\* C29: for every subject whose two bucket sets are both non-empty: when the
\* two most recent minutes are equal, that minute is in the intersection,
\* every record at it is matched and no record is mismatched; when they
\* differ, the source with the later one has a mismatched record, all of its
\* records at that minute, and the other source's records at its own most
\* recent minute are matched whenever that minute is in the intersection.  A
\* record has one class, so it never carries both flags.
C29_FlagsOfMostRecentMinutes ==
    \A n \in 1..Len(sections) :
        LET s == sections[n]
        IN  /\ SectionClasses(s) \subseteq { "blue", "red", "" }
            /\ (s.most_recent_usg_min # << >> /\ s.most_recent_rct_min # << >>) =>
                  IF s.most_recent_usg_min = s.most_recent_rct_min
                  THEN /\ s.most_recent_usg_min \in s.intersect_minutes
                       /\ UsgClassesAt(s, s.most_recent_usg_min) = { "blue" }
                       /\ RctClassesAt(s, s.most_recent_rct_min) = { "blue" }
                       /\ "red" \notin SectionClasses(s)
                  ELSE /\ LatestFlags(s, UsgClassesAt(s, s.most_recent_usg_min),
                                      s.most_recent_usg_min, s.most_recent_rct_min)
                       /\ LatestFlags(s, RctClassesAt(s, s.most_recent_rct_min),
                                      s.most_recent_rct_min, s.most_recent_usg_min)

\* A section whose most recent minutes differ, the earlier one in the
\* intersection: it holds a mismatched and a matched record.
C29_Witness ==
    \E n \in 1..Len(sections) :
        /\ sections[n].most_recent_usg_min # << >>
        /\ sections[n].most_recent_rct_min # << >>
        /\ sections[n].most_recent_usg_min # sections[n].most_recent_rct_min
        /\ sections[n].most_recent_usg_min \in sections[n].intersect_minutes
        /\ "red" \in RctClassesAt(sections[n], sections[n].most_recent_rct_min)
        /\ "blue" \in UsgClassesAt(sections[n], sections[n].most_recent_usg_min)


\* The number of task records of a section for which the display-image loop
\* found a path.
DisplayedCount(s) == Cardinality({ i \in 1..Len(s.resolved) : s.resolved[i].found })

\* C30: the two implementations of the artifact matcher agree: for every
\* subject the score of _snapshot_score_for_pkg equals the number of its
\* task records for which the display-image loop finds a path, and the
\* displayed image set is non-empty exactly when the score is positive.
C30_ScoreEqualsDisplayedCount ==
    \A n \in 1..Len(sections) :
        /\ SnapshotScoreForPkg(df_rct, snap_index, sections[n].pkg) = DisplayedCount(sections[n])
        /\ (sections[n].imgs # {}) <=> (SnapshotScoreForPkg(df_rct, snap_index, sections[n].pkg) > 0)

\* C30, for the records that have a stored artifact name: the score counts
\* the records of the subject for which the display-image loop finds a path.
C30_AgreeOnNamedRecords ==
    \A n \in 1..Len(sections) :
        (\A i \in 1..Len(sections[n].rct) : ~IsNull(sections[n].rct[i].row.snapshot_file)) =>
            /\ SnapshotScoreForPkg(df_rct, snap_index, sections[n].pkg) = DisplayedCount(sections[n])
            /\ (sections[n].imgs # {}) <=> (DisplayedCount(sections[n]) > 0)

=============================================================================
